---- MODULE Spec2Model ----
(***************************************************************************)
(* A model of the AutomatedGit orchestration pipeline:                     *)
(*   - the conflict resolver of gitOperations.js (resolveFileConflicts,    *)
(*     resolveConflictsAutomatically),                                     *)
(*   - the pull-request controller of prOperations.js (createAndMergePR,   *)
(*     mergeGitHubPR),                                                     *)
(*   - the work partitioner and the streaming loop of the server           *)
(*     (/api/process-stream) with processDate of gitOperations.js.         *)
(* Each component has its own specification over the shared variables; a   *)
(* component that a specification does not run stays in its idle state.    *)
(***************************************************************************)
EXTENDS Integers, Sequences, FiniteSets, TLC

VARIABLES
    \* resolveFileConflicts(git, file, content, filePath)
    rfPc,        \* "ready" | "done"
    rfFile,      \* the file argument, a sequence of name parts
    rfContent,   \* the content argument, as content.split('\n')
    rfOut,       \* the returned string, as its split('\n') (<<>>: not returned yet)
    \* resolveConflictsAutomatically(git, repoPath, branchName)
    acPc,          \* "start" | "files" | "final" | "done"
    acTree,        \* the unmerged entries of the index when the call starts
    acConflicted,  \* conflictedFiles, the names the loop goes through
    acIdx,         \* the loop's position in conflictedFiles
    acStaged,      \* the names staged with git.add
    acCommitCalls, \* how many times git.commit was called
    acNoVerify,    \* whether the last git.commit call carried --no-verify
    acCommits,     \* how many commits git created
    acResult,      \* "none" | "ok" | "fail": the success field returned
    \* createAndMergePR(repoUrl, branchName, token, options) and mergeGitHubPR
    prPc,          \* where the controller is
    prOpts,        \* [platform, repoInfoOk, autoMerge, hasGit]: the call's inputs
    prRemote,      \* [open, merged, created]: the request of (head, base) on the remote
    prRun,         \* which call of the controller this is (1, 2, ...)
    prOpenAtLookup,\* whether an open request existed when this call looked it up
    prExisting,    \* existingPR: TRUE when the lookup found the request
    prExistingMerged, \* existingPR.merged, as the lookup's answer gave it
    prSeen,        \* [dirty, blocked, unknown]: status polls of this call by answer
    prResolution,  \* updateResult of this attempt: "none", "ok", "manual", "fail",
                   \* or "skipped" when the options hold no git handle
    prMergeResponse, \* the answer to this attempt's merge request, "none" before it
    prAttempt,     \* mergeGitHubPR's loop variable
    prCalls,       \* [lookup, create, poll, resolve, merge]: remote calls of this call
    prLastPoll,    \* the outcome of the latest status poll
    prWait,        \* the latest wait, in ms
    prNeedRepoll,  \* a resolution succeeded and no status poll followed yet
    prMergeRet,    \* what mergeGitHubPR returned
    prRet,         \* what createAndMergePR returned
    \* the plan of /api/process-stream
    plPc,          \* where the planning is
    plIn,          \* [startDate, endDate, numBranches, totalCommits, country]
    plValid,       \* validDates
    plActual,      \* actualNumBranches
    plAdjusted,    \* adjustedBranches
    plDates,       \* datesToProcess
    plCommits,     \* commitsPerBranch
    plLeft,        \* turns left of the loop that hands out remainingCommits
    plError,       \* the error event sent, "none" when none was
    \* one call of processDate
    pdPc,          \* the step processDate is at
    pdIn,          \* [commitCount, createPR, token]
    pdRepo,        \* the local repository: [main, master, local, remoteName]
    pdRemote,      \* the branch on the remote: "absent", "diverged", "pushed"
    pdRemoteAtStart, \* pdRemote when processDate was called
    pdBase,        \* baseBranch
    pdHead,        \* the branch checked out: "main", "master", "earlier" (the
                   \* branch of an earlier assignment) or "assigned"
    pdFrom,        \* where the assignment's branch started: the branch checked
                   \* out when it was created, "existing" for a local branch
                   \* that was there already, "none" before
    pdBranchLog,   \* the git calls of createBranch in order: [op, ok]
    pdSteps,       \* the steps begun so far, in order
    pdResults,     \* the results object: [branch, commits, push, pr]
    pdMade,        \* commits made by createCommits
    pdPushes,      \* pushes of the branch issued by pushBranch
    pdPushLog,     \* those pushes in order: [forced, kind]
    pdFile,        \* lines of commits.txt in the working tree
    pdLog,         \* the commits made: [lines, author, committer]
    pdFault,       \* the push met a fault other than a non-fast-forward rejection
    pdRet,         \* what processDate returned
    \* the loop of /api/process-stream
    rnPc,          \* where the handler is
    rnReq,         \* [createPR, token] of the request
    rnI,           \* the loop index, counted from 1
    rnResults,     \* results
    rnInvoked,     \* calls of processDate made
    rnInitCalls,   \* calls of initGit made
    rnTimers,      \* the heartbeat and keep-alive intervals
    rnEvents,      \* the terminal events sent
    rnSummary,     \* the payload of the complete event
    rnBeats,       \* the writes made by the two interval callbacks
    \* requests that share one working copy
    wcPc,          \* per request: [turn, op, busy]
    wcRunning,     \* the repository operations in progress: <<request, turn, op>>
    \* one request to /api/process
    lgPc,          \* where the handler is
    lgIn,          \* the request body
    lgValid,       \* validDates
    lgStatus,      \* the HTTP status of the response, 0 before it is sent
    \* one request to /api/check with the body of the stream request
    ckPc,          \* where the handler is
    ckDates,       \* validDatesPreview of the response
    ckCommits,     \* commitsPerBranch of the response
    \* one call of updateBranchWithBase
    ubPc,          \* the step the call is at
    ubIn,          \* [repoPath]: whether the caller passed a repository path
    ubLog,         \* the git calls made, in order: [op, ok]
    ubRaised,      \* git.merge of the base branch threw
    ubMerging,     \* the working copy is in an unfinished merge
    ubCommitted,   \* the conflict resolution was committed
    ubKind,        \* which failure the call is about to report
    ubRet          \* what the call returned

rfVars == <<rfPc, rfFile, rfContent, rfOut>>

acVars == <<acPc, acTree, acConflicted, acIdx, acStaged, acCommitCalls,
            acNoVerify, acCommits, acResult>>

prVars == <<prPc, prOpts, prRemote, prRun, prOpenAtLookup, prExisting,
            prExistingMerged, prSeen, prResolution, prMergeResponse, prAttempt,
            prCalls, prLastPoll, prWait, prNeedRepoll, prMergeRet, prRet>>

plVars == <<plPc, plIn, plValid, plActual, plAdjusted, plDates, plCommits,
            plLeft, plError>>

pdVars == <<pdPc, pdIn, pdRepo, pdRemote, pdRemoteAtStart, pdBase, pdHead,
            pdFrom, pdBranchLog, pdSteps,
            pdResults, pdMade, pdPushes, pdPushLog, pdFile, pdLog, pdFault,
            pdRet>>

rnVars == <<rnPc, rnReq, rnI, rnResults, rnInvoked, rnInitCalls, rnTimers,
            rnEvents, rnSummary, rnBeats>>

wcVars == <<wcPc, wcRunning>>

lgVars == <<lgPc, lgIn, lgValid, lgStatus>>

ckVars == <<ckPc, ckDates, ckCommits>>

ubVars == <<ubPc, ubIn, ubLog, ubRaised, ubMerging, ubCommitted, ubKind, ubRet>>

vars == <<rfVars, acVars, prVars, plVars, pdVars, rnVars, wcVars, lgVars,
          ckVars, ubVars>>

\* No write of the heartbeat callback or the keep-alive callback yet.
NoBeats == [heartbeat |-> 0, keepAlive |-> 0]

(***************************************************************************)
(* The idle state of each component, for the specifications that do not    *)
(* run it.                                                                 *)
(***************************************************************************)
RfIdle ==
    /\ rfPc = "idle"
    /\ rfFile = <<>>
    /\ rfContent = <<>>
    /\ rfOut = <<>>

AcIdle ==
    /\ acPc = "idle"
    /\ acTree = <<>>
    /\ acConflicted = <<>>
    /\ acIdx = 0
    /\ acStaged = {}
    /\ acCommitCalls = 0
    /\ acNoVerify = FALSE
    /\ acCommits = 0
    /\ acResult = "none"

PrIdle ==
    /\ prPc = "idle"
    /\ prOpts = <<>>
    /\ prRemote = <<>>
    /\ prRun = 0
    /\ prOpenAtLookup = FALSE
    /\ prExisting = FALSE
    /\ prExistingMerged = FALSE
    /\ prSeen = <<>>
    /\ prResolution = "none"
    /\ prMergeResponse = "none"
    /\ prAttempt = 0
    /\ prCalls = <<>>
    /\ prLastPoll = "none"
    /\ prWait = 0
    /\ prNeedRepoll = FALSE
    /\ prMergeRet = <<>>
    /\ prRet = <<>>

PlIdle ==
    /\ plPc = "idle"
    /\ plIn = <<>>
    /\ plValid = <<>>
    /\ plActual = 0
    /\ plAdjusted = FALSE
    /\ plDates = <<>>
    /\ plCommits = <<>>
    /\ plLeft = 0
    /\ plError = "none"

PdIdle ==
    /\ pdPc = "idle"
    /\ pdIn = <<>>
    /\ pdRepo = <<>>
    /\ pdRemote = "absent"
    /\ pdRemoteAtStart = "absent"
    /\ pdBase = "main"
    /\ pdHead = "main"
    /\ pdFrom = "none"
    /\ pdBranchLog = <<>>
    /\ pdSteps = <<>>
    /\ pdResults = <<>>
    /\ pdMade = 0
    /\ pdPushes = 0
    /\ pdPushLog = <<>>
    /\ pdFile = 0
    /\ pdLog = <<>>
    /\ pdFault = FALSE
    /\ pdRet = <<>>

RnIdle ==
    /\ rnPc = "idle"
    /\ rnReq = <<>>
    /\ rnI = 0
    /\ rnResults = <<>>
    /\ rnInvoked = 0
    /\ rnInitCalls = 0
    /\ rnTimers = "unset"
    /\ rnEvents = <<>>
    /\ rnSummary = <<>>
    /\ rnBeats = NoBeats

WcIdle ==
    /\ wcPc = <<>>
    /\ wcRunning = {}

LgIdle ==
    /\ lgPc = "idle"
    /\ lgIn = <<>>
    /\ lgValid = <<>>
    /\ lgStatus = 0

CkIdle ==
    /\ ckPc = "idle"
    /\ ckDates = <<>>
    /\ ckCommits = <<>>

UbIdle ==
    /\ ubPc = "idle"
    /\ ubIn = <<>>
    /\ ubLog = <<>>
    /\ ubRaised = FALSE
    /\ ubMerging = FALSE
    /\ ubCommitted = FALSE
    /\ ubKind = "none"
    /\ ubRet = <<>>

(***************************************************************************)
(* Text.  A line is a sequence of tokens; a string with newlines is the    *)
(* sequence of its lines, exactly what split('\n') returns (never empty:   *)
(* the empty string splits into one empty line).                           *)
(***************************************************************************)
MarkOurs == "<<<<<<<"
MarkSep == "======="
MarkEnd == ">>>>>>>"
Space == " "

Blank == <<>>

\* The lines a modelled file is made of: a blank line, two spellings of the
\* same trimmed content, another content line, and the three marker lines.
LineAlphabet ==
    { Blank, <<"a">>, <<"a", Space>>, <<"b">>,
      <<MarkOurs>>, <<MarkSep>>, <<MarkEnd>> }

\* Bound: the longest modelled file, in lines.
MaxLines == 5

Contents == UNION { [1..n -> LineAlphabet] : n \in 1..MaxLines }

\* The log file written by createCommits, and other names.
LogFile == <<"commits.txt">>

FileNames == { LogFile, <<"old_", "commits.txt">>, <<"README.md">> }

\* String.prototype.startsWith for a one-token prefix.
StartsWith(line, tok) == Len(line) >= 1 /\ line[1] = tok

\* String.prototype.endsWith for a suffix given as tokens.
EndsWith(s, suffix) ==
    /\ Len(s) >= Len(suffix)
    /\ SubSeq(s, Len(s) - Len(suffix) + 1, Len(s)) = suffix

RECURSIVE TrimLeft(_)
TrimLeft(line) ==
    IF line # <<>> /\ Head(line) = Space THEN TrimLeft(Tail(line)) ELSE line

RECURSIVE TrimRight(_)
TrimRight(line) ==
    IF line # <<>> /\ line[Len(line)] = Space
    THEN TrimRight(SubSeq(line, 1, Len(line) - 1))
    ELSE line

\* String.prototype.trim
Trim(line) == TrimRight(TrimLeft(line))

TruthyAlways(s) == TRUE

\* JavaScript truthiness of a string: non-empty.
Truthy(s) == s # <<>>

\* Array.prototype.join('\n') of an array of lines, as the split of the result.
Join(ls) == IF ls = <<>> THEN <<Blank>> ELSE ls

\* The empty string.
EmptyString == <<Blank>>

(***************************************************************************)
(* resolveFileConflicts, the commits.txt branch: a scan that buffers both  *)
(* sides of a region and emits their union at the closing marker.          *)
(***************************************************************************)
UnionInit ==
    [ state |-> "normal", ours |-> <<>>, theirs |-> <<>>,
      resolved |-> <<>>, seen |-> {} ]

\* The loop over `combined` at a closing marker.
RECURSIVE PushUnseen(_, _)
PushUnseen(acc, ls) ==
    IF ls = <<>> THEN acc
    ELSE LET trimmed == Trim(Head(ls)) IN
         IF Truthy(trimmed) /\ trimmed \notin acc.seen
         THEN PushUnseen([ resolved |-> Append(acc.resolved, Head(ls)),
                           seen |-> acc.seen \cup {trimmed} ], Tail(ls))
         ELSE PushUnseen(acc, Tail(ls))

CombineRegionOursOnly(st) == st.ours

\* const combined = [...oursContent, ...theirsContent]
CombineRegion(st) == st.ours \o st.theirs

UnionStep(st, line) ==
    IF StartsWith(line, MarkOurs)
    THEN [st EXCEPT !.state = "ours", !.ours = <<>>, !.theirs = <<>>]
    ELSE IF StartsWith(line, MarkSep)
    THEN [st EXCEPT !.state = "theirs"]
    ELSE IF StartsWith(line, MarkEnd)
    THEN LET acc == PushUnseen([resolved |-> st.resolved, seen |-> st.seen],
                               CombineRegion(st))
         IN [ state |-> "normal", ours |-> <<>>, theirs |-> <<>>,
              resolved |-> acc.resolved, seen |-> acc.seen ]
    ELSE IF st.state = "ours"
    THEN IF Truthy(Trim(line)) THEN [st EXCEPT !.ours = Append(@, line)] ELSE st
    ELSE IF st.state = "theirs"
    THEN IF Truthy(Trim(line)) THEN [st EXCEPT !.theirs = Append(@, line)] ELSE st
    ELSE LET acc == PushUnseen([resolved |-> st.resolved, seen |-> st.seen],
                               <<line>>)
         IN [st EXCEPT !.resolved = acc.resolved, !.seen = acc.seen]

RECURSIVE UnionScan(_, _)
UnionScan(st, ls) ==
    IF ls = <<>> THEN st ELSE UnionScan(UnionStep(st, Head(ls)), Tail(ls))

\* resolvedLines.join('\n') + (resolvedLines.length > 0 ? '\n' : '')
ResolveUnion(content) ==
    LET resolvedLines == UnionScan(UnionInit, content).resolved
    IN IF Len(resolvedLines) > 0 THEN resolvedLines \o <<Blank>> ELSE EmptyString

(***************************************************************************)
(* resolveFileConflicts, the branch for every other file: keep "ours".     *)
(***************************************************************************)
OursInit == [ inConflict |-> FALSE, keepOurs |-> TRUE, resolved |-> <<>> ]

OursStep(st, line) ==
    IF StartsWith(line, MarkOurs)
    THEN [st EXCEPT !.inConflict = TRUE, !.keepOurs = TRUE]
    ELSE IF StartsWith(line, MarkSep)
    THEN [st EXCEPT !.keepOurs = FALSE]
    ELSE IF StartsWith(line, MarkEnd)
    THEN [st EXCEPT !.inConflict = FALSE, !.keepOurs = TRUE]
    ELSE IF ~st.inConflict \/ st.keepOurs
    THEN [st EXCEPT !.resolved = Append(@, line)]
    ELSE st

RECURSIVE OursScan(_, _)
OursScan(st, ls) ==
    IF ls = <<>> THEN st ELSE OursScan(OursStep(st, Head(ls)), Tail(ls))

ResolveOurs(content) == Join(OursScan(OursInit, content).resolved)

\* if (file === 'commits.txt' || file.endsWith('commits.txt'))
IsLogFile(file) == file = LogFile \/ EndsWith(file, LogFile)

ResolveFileConflicts(file, content) ==
    IF IsLogFile(file) THEN ResolveUnion(content) ELSE ResolveOurs(content)

(***************************************************************************)
(* What the resolver's claims speak about: conflict regions and the lines  *)
(* of a file, read off the file itself.                                    *)
(***************************************************************************)
IsMarker(line) ==
    StartsWith(line, MarkOurs) \/ StartsWith(line, MarkSep) \/ StartsWith(line, MarkEnd)

\* The tag of every line of a file: "outside", "ours", "theirs", a "marker"
\* in its place, or "stray" for a marker that is out of place.
RECURSIVE TagLines(_, _)
TagLines(ls, mode) ==
    IF ls = <<>> THEN <<>>
    ELSE LET l == Head(ls) IN
         IF StartsWith(l, MarkOurs)
         THEN <<IF mode = "outside" THEN "marker" ELSE "stray">> \o TagLines(Tail(ls), "ours")
         ELSE IF StartsWith(l, MarkSep)
         THEN <<IF mode = "ours" THEN "marker" ELSE "stray">> \o TagLines(Tail(ls), "theirs")
         ELSE IF StartsWith(l, MarkEnd)
         THEN <<IF mode = "theirs" THEN "marker" ELSE "stray">> \o TagLines(Tail(ls), "outside")
         ELSE <<mode>> \o TagLines(Tail(ls), mode)

RECURSIVE FinalMode(_, _)
FinalMode(ls, mode) ==
    IF ls = <<>> THEN mode
    ELSE FinalMode(Tail(ls),
                   IF StartsWith(Head(ls), MarkOurs) THEN "ours"
                   ELSE IF StartsWith(Head(ls), MarkSep) THEN "theirs"
                   ELSE IF StartsWith(Head(ls), MarkEnd) THEN "outside"
                   ELSE mode)

\* Every marker is in its place and the last region is closed.
WellFormed(content) ==
    /\ \A i \in 1..Len(content) : TagLines(content, "outside")[i] # "stray"
    /\ FinalMode(content, "outside") = "outside"

HasRegion(content) == \E i \in 1..Len(content) : StartsWith(content[i], MarkOurs)

\* The indexes of the non-blank lines that are not markers.
ContentIdx(content) ==
    { i \in 1..Len(content) : ~IsMarker(content[i]) /\ Truthy(Trim(content[i])) }

\* Where a trimmed content is first seen, scanning top to bottom.
FirstIdx(content, t) ==
    CHOOSE i \in ContentIdx(content) :
        /\ Trim(content[i]) = t
        /\ \A j \in ContentIdx(content) : Trim(content[j]) = t => i <= j

\* The lines of a returned string that ends in a newline.
BodyOf(out) == IF out = EmptyString THEN <<>> ELSE SubSeq(out, 1, Len(out) - 1)

\* The lines outside the regions and the lines of the "ours" sections.
OursVersion(content) ==
    LET tags == TagLines(content, "outside")
        keep == { i \in 1..Len(content) : tags[i] \in {"outside", "ours"} }
        F[i \in 0..Len(content)] ==
            IF i = 0 THEN <<>>
            ELSE IF i \in keep THEN Append(F[i - 1], content[i]) ELSE F[i - 1]
    IN F[Len(content)]

\* C8: for the log file commits.txt with well-formed conflict regions the
\* returned text holds exactly the distinct non-blank lines of the file that
\* are not markers: each trimmed content once, no marker line, every line in
\* the spelling and at the rank of its first occurrence from top to bottom
\* (inside a region "ours" comes before "theirs").
C8_UnionOfBothSides ==
    (rfPc = "done" /\ rfFile = LogFile /\ WellFormed(rfContent)) =>
        LET body == BodyOf(rfOut)
            idx == ContentIdx(rfContent)
        IN /\ rfOut[Len(rfOut)] = Blank
           /\ \A i \in idx : \E k \in 1..Len(body) : Trim(body[k]) = Trim(rfContent[i])
           /\ \A k \in 1..Len(body) :
                /\ ~IsMarker(body[k])
                /\ \E i \in idx : Trim(rfContent[i]) = Trim(body[k])
                /\ body[k] = rfContent[FirstIdx(rfContent, Trim(body[k]))]
           /\ \A j, k \in 1..Len(body) :
                j < k => /\ Trim(body[j]) # Trim(body[k])
                         /\ FirstIdx(rfContent, Trim(body[j]))
                              < FirstIdx(rfContent, Trim(body[k]))

\* A log file with a region whose "theirs" side repeats a line of "ours".
C8_Witness ==
    /\ rfPc = "done" /\ rfFile = LogFile
    /\ WellFormed(rfContent) /\ HasRegion(rfContent)
    /\ Len(BodyOf(rfOut)) >= 1
    /\ \E i, j \in ContentIdx(rfContent) :
         /\ TagLines(rfContent, "outside")[i] = "ours"
         /\ TagLines(rfContent, "outside")[j] = "theirs"
         /\ rfContent[i] # rfContent[j]
         /\ Trim(rfContent[i]) = Trim(rfContent[j])

\* C9: for any file other than commits.txt the returned text is the "ours"
\* version: the lines outside the regions and the lines of every "ours"
\* section, in order, without the "theirs" lines and the marker lines.
C9_OursVersion ==
    (rfPc = "done" /\ rfFile # LogFile
        /\ WellFormed(rfContent) /\ HasRegion(rfContent)) =>
        rfOut = Join(OursVersion(rfContent))


(***************************************************************************)
(* resolveConflictsAutomatically: resolve the reported files, stage them,  *)
(* re-check the status and commit.                                         *)
(***************************************************************************)
\* Bound: how many files a merge leaves unmerged.
MaxFiles == 2

\* The status codes git gives an unmerged path (both modified, both added,
\* both deleted); simple-git's status().conflicted lists them all.
UnmergedCodes == {"UU", "AA", "DD"}

\* File contents the loop meets: a region with both sides, and a region
\* whose "ours" side is empty.
SampleContents ==
    { << <<MarkOurs>>, <<"a">>, <<MarkSep>>, <<"b">>, <<MarkEnd>> >>,
      << <<MarkOurs>>, <<MarkSep>>, <<"b">>, <<MarkEnd>> >> }

NoContent == EmptyString

\* An unmerged entry: its path, its status code, whether the file is in the
\* working tree at path.join(repoPath, file), whether one is found at
\* path.resolve(process.cwd(), file), and what the file holds.
EntriesOf(name) ==
    { [name |-> name, code |-> c, onDisk |-> TRUE, atAlt |-> FALSE, content |-> t] :
          c \in {"UU", "AA"}, t \in SampleContents }
    \cup
    { [name |-> name, code |-> c, onDisk |-> FALSE, atAlt |-> TRUE, content |-> t] :
          c \in {"UU", "AA"}, t \in SampleContents }
    \cup
    { [name |-> name, code |-> c, onDisk |-> FALSE, atAlt |-> FALSE, content |-> NoContent] :
          c \in UnmergedCodes }

Entries == UNION { EntriesOf(n) : n \in FileNames }

Trees ==
    { t \in UNION { [1..n -> Entries] : n \in 0..MaxFiles } :
        \A i, j \in 1..Len(t) : i # j => t[i].name # t[j].name }

RECURSIVE NamesOf(_)
NamesOf(t) == IF t = <<>> THEN <<>> ELSE <<Head(t).name>> \o NamesOf(Tail(t))

\* rawStatus.match(/^UU\s+(.+)$/gm) over the entries still unmerged
RECURSIVE PorcelainUU(_, _)
PorcelainUU(t, staged) ==
    IF t = <<>> THEN <<>>
    ELSE (IF Head(t).code = "UU" /\ Head(t).name \notin staged
          THEN <<Head(t).name>> ELSE <<>>) \o PorcelainUU(Tail(t), staged)

\* status.conflicted: the entries not yet staged, whatever their code
StatusConflicted(t, staged) == SelectSeq(NamesOf(t), LAMBDA n : n \notin staged)

\* if (resolvedContent): a non-empty string
NonEmptyString(str) == str # EmptyString

AcReturn(result) ==
    /\ acPc' = "done"
    /\ acResult' = result

\* git.status(), the raw-status fallback and the empty check (lines 409-431)
AutoStart ==
    /\ acPc = "start"
    /\ \E statusOk \in BOOLEAN :
         IF ~statusOk
         THEN AcReturn("fail") /\ UNCHANGED acConflicted
         ELSE LET conflicted == StatusConflicted(acTree, {})
                  files == IF Len(conflicted) = 0
                           THEN PorcelainUU(acTree, {}) ELSE conflicted
              IN /\ acConflicted' = files
                 /\ IF Len(files) = 0
                    THEN AcReturn("fail")
                    ELSE acPc' = "files" /\ UNCHANGED acResult
    /\ acIdx' = 1
    /\ UNCHANGED <<acTree, acStaged, acCommitCalls, acNoVerify, acCommits>>
    /\ UNCHANGED <<rfVars, prVars, plVars, pdVars, rnVars, wcVars, lgVars, ckVars, ubVars>>

\* One turn of the loop over conflictedFiles (lines 464-506)
AutoFile ==
    /\ acPc = "files"
    /\ acIdx <= Len(acConflicted)
    /\ LET e == acTree[acIdx]
           readable == e.onDisk \/ e.atAlt
           resolvedContent == ResolveFileConflicts(e.name, e.content)
       IN IF readable /\ NonEmptyString(resolvedContent)
          THEN \E addOk \in BOOLEAN :
                 IF addOk
                 THEN /\ acStaged' = acStaged \cup {e.name}
                      /\ acIdx' = acIdx + 1
                      /\ UNCHANGED <<acPc, acResult>>
                 ELSE /\ AcReturn("fail")
                      /\ UNCHANGED <<acStaged, acIdx>>
          ELSE /\ acIdx' = acIdx + 1
               /\ UNCHANGED <<acStaged, acPc, acResult>>
    /\ UNCHANGED <<acTree, acConflicted, acCommitCalls, acNoVerify, acCommits>>
    /\ UNCHANGED <<rfVars, prVars, plVars, pdVars, rnVars, wcVars, lgVars, ckVars, ubVars>>

\* The re-check of the status and the commit (lines 508-536)
AutoFinish ==
    /\ acPc = "files"
    /\ acIdx > Len(acConflicted)
    /\ \E statusOk \in BOOLEAN, commitOk \in BOOLEAN :
         LET remainingConflicts == StatusConflicted(acTree, acStaged)
             conflictMatches == PorcelainUU(acTree, acStaged)
         IN IF ~statusOk
            THEN AcReturn("fail") /\ UNCHANGED <<acCommitCalls, acNoVerify, acCommits>>
            ELSE IF Len(remainingConflicts) > 0 /\ Len(conflictMatches) > 0
            THEN AcReturn("fail") /\ UNCHANGED <<acCommitCalls, acNoVerify, acCommits>>
            ELSE /\ acCommitCalls' = acCommitCalls + 1
                 /\ acNoVerify' = TRUE
                 \* git refuses to commit while the index holds unmerged paths
                 /\ IF Len(remainingConflicts) = 0 /\ commitOk
                    THEN acCommits' = acCommits + 1 /\ AcReturn("ok")
                    ELSE UNCHANGED acCommits /\ AcReturn("fail")
    /\ UNCHANGED <<acTree, acConflicted, acIdx, acStaged>>
    /\ UNCHANGED <<rfVars, prVars, plVars, pdVars, rnVars, wcVars, lgVars, ckVars, ubVars>>

InitAuto ==
    /\ acPc = "start"
    /\ acTree \in Trees
    /\ acConflicted = <<>>
    /\ acIdx = 0
    /\ acStaged = {}
    /\ acCommitCalls = 0
    /\ acNoVerify = FALSE
    /\ acCommits = 0
    /\ acResult = "none"
    /\ RfIdle
    /\ PrIdle
    /\ PlIdle
    /\ PdIdle
    /\ RnIdle
    /\ WcIdle
    /\ LgIdle
    /\ CkIdle
    /\ UbIdle

NextAuto == AutoStart \/ AutoFile \/ AutoFinish

SpecAuto == InitAuto /\ [][NextAuto]_vars

\* The reported files that are still unmerged.
AcRemaining == { acTree[i].name : i \in 1..Len(acTree) } \ acStaged

\* C10: the resolution commit is created only when no reported file remains
\* conflicted: if a file is still in conflict after the loop (skipped as
\* missing or unresolvable, whatever its unmerged status code), the call
\* returns failure and has issued no commit; on full resolution exactly one
\* commit is created, with hooks skipped.
C10_CommitOnlyWhenResolved ==
    acPc = "done" =>
        /\ AcRemaining # {} => (acResult = "fail" /\ acCommitCalls = 0)
        /\ acResult = "ok" =>
             (AcRemaining = {} /\ acCommitCalls = 1 /\ acCommits = 1 /\ acNoVerify)


(***************************************************************************)
(* The pull-request controller: createAndMergePR and the retry loop of     *)
(* mergeGitHubPR.  The remote answers each call as it pleases, within what *)
(* its own state allows.                                                   *)
(***************************************************************************)
\* mergeGitHubPR(..., maxRetries = 5, ...), and the 5 createAndMergePR passes
MaxRetries == 5

BlockedStepMs == 5000
BlockedCapMs == 30000
UnknownStepMs == 3000
UnknownCapMs == 20000
ResolvedWaitMs == 5000
ExistingWaitMs == 2000
CreatedWaitMs == 3000

\* Bound: how many times the controller is called for the same (head, base).
MaxRuns == 2

Min(a, b) == IF a <= b THEN a ELSE b

\* Math.min(5000 * attempt, 30000)
BlockedWait(attempt) == Min(BlockedStepMs * attempt, BlockedCapMs)

UnknownWaitAsBlocked(attempt) == Min(BlockedStepMs * attempt, BlockedCapMs)

\* Math.min(3000 * attempt, 20000)
UnknownWait(attempt) == Min(UnknownStepMs * attempt, UnknownCapMs)

\* What getPRStatus can report: the call failed, or the request is merged,
\* mergeable false with state dirty, mergeable false with another state,
\* mergeable null, or mergeable true.
PollOutcomes == {"fail", "merged", "dirty", "blocked", "unknown", "clean"}

\* What updateBranchWithBase can return: success, failure that asks for
\* manual resolution, and failure that does not.
UpdateOutcomes == {"ok", "manual", "fail"}

\* What the merge request can end in: 2xx, an error whose message holds
\* 'not mergeable', another error response, a thrown exception.
MergeOutcomes == {"ok", "notMergeable", "httpError", "exception"}

NoCalls == [lookup |-> 0, create |-> 0, poll |-> 0, resolve |-> 0, merge |-> 0]

NoSeen == [dirty |-> 0, blocked |-> 0, unknown |-> 0]

NoMergeRet == [success |-> FALSE, kind |-> "none", manual |-> FALSE]

\* manual is the requiresManualResolution field of the object returned; no
\* return of createAndMergePR sets it.
NoRet == [success |-> FALSE, kind |-> "none", prCreated |-> FALSE,
          merged |-> "unset", mergeKind |-> "none", manual |-> FALSE]

\* A return of createAndMergePR before any request is at hand.
CMFail(kind) ==
    /\ prRet' = [NoRet EXCEPT !.kind = kind]
    /\ prPc' = "returned"

\* Platform detection and URL parsing (lines 841-858), the unsupported
\* platform (lines 883-888)
CMStart ==
    /\ prPc = "start"
    /\ IF prOpts.platform = "none" THEN CMFail("noPlatform")
       ELSE IF ~prOpts.repoInfoOk THEN CMFail("badUrl")
       ELSE IF prOpts.platform # "github" THEN CMFail("unsupported")
       ELSE prPc' = "lookup" /\ UNCHANGED prRet
    /\ UNCHANGED <<prOpts, prExistingMerged, prSeen, prResolution, prMergeResponse,
                   prRemote, prRun, prOpenAtLookup, prExisting, prAttempt,
                   prCalls, prLastPoll, prWait, prNeedRepoll, prMergeRet>>
    /\ UNCHANGED <<rfVars, acVars, plVars, pdVars, rnVars, wcVars, lgVars, ckVars, ubVars>>

\* findPRForBranch: found is true only when the call succeeded and the list
\* holds an open request of this head and base
LookupFound(ok) == ok /\ prRemote.open

\* findPRForBranch and the choice between reuse and creation (lines 864-882).
\* merged is the field of that name in the entry found, passed on as it
\* comes (line 551); a list of open requests that keeps to the API of
\* GitHub never sends it true.
CMLookup ==
    /\ prPc = "lookup"
    /\ \E ok \in BOOLEAN, merged \in BOOLEAN :
         /\ prExisting' = LookupFound(ok)
         /\ prExistingMerged' = (LookupFound(ok) /\ merged)
         /\ prPc' = IF LookupFound(ok) THEN "created" ELSE "create"
    /\ prOpenAtLookup' = prRemote.open
    /\ prCalls' = [prCalls EXCEPT !.lookup = @ + 1]
    /\ UNCHANGED <<prOpts, prSeen, prResolution, prMergeResponse, prRemote, prRun,
                   prAttempt, prLastPoll, prWait, prNeedRepoll, prMergeRet, prRet>>
    /\ UNCHANGED <<rfVars, acVars, plVars, pdVars, rnVars, wcVars, lgVars, ckVars, ubVars>>

\* createGitHubPR (lines 412-499); the remote refuses a second open request
\* of the same head and base
CMCreate ==
    /\ prPc = "create"
    /\ prCalls' = [prCalls EXCEPT !.create = @ + 1]
    /\ \E ok \in BOOLEAN :
         IF ok /\ ~prRemote.open
         THEN /\ prRemote' = [open |-> TRUE, merged |-> FALSE,
                              created |-> prRemote.created + 1]
              /\ prPc' = "created"
              /\ UNCHANGED prRet
         ELSE /\ CMFail("createFailed")
              /\ UNCHANGED prRemote
    /\ UNCHANGED <<prOpts, prExistingMerged, prSeen, prResolution, prMergeResponse,
                   prRun, prOpenAtLookup, prExisting, prAttempt,
                   prLastPoll, prWait, prNeedRepoll, prMergeRet>>
    /\ UNCHANGED <<rfVars, acVars, plVars, pdVars, rnVars, wcVars, lgVars, ckVars, ubVars>>

WantsMergeAlways(autoMerge, platform) == TRUE

\* if (autoMerge && detectedPlatform === 'github') (line 903)
WantsMerge(autoMerge, platform) == autoMerge /\ platform = "github"

AlreadyMergedNever(existing, merged) == FALSE

\* if (existingPR && existingPR.merged) (line 907)
AlreadyMerged(existing, merged) == existing /\ merged

\* The result object and the decision to merge (lines 894-918)
CMAfterCreate ==
    /\ prPc = "created"
    /\ IF WantsMerge(prOpts.autoMerge, prOpts.platform)
       THEN IF AlreadyMerged(prExisting, prExistingMerged)
            THEN /\ prRet' = [success |-> TRUE, kind |-> "foundMerged",
                              prCreated |-> ~prExisting, merged |-> TRUE,
                              mergeKind |-> "alreadyMerged", manual |-> FALSE]
                 /\ prPc' = "returned"
                 /\ UNCHANGED <<prWait, prAttempt>>
            ELSE /\ prWait' = IF prExisting THEN ExistingWaitMs ELSE CreatedWaitMs
                 /\ prAttempt' = 1
                 /\ prPc' = "poll"
                 /\ UNCHANGED prRet
       ELSE /\ prRet' = [success |-> TRUE, kind |-> "noMerge",
                         prCreated |-> ~prExisting, merged |-> "unset",
                         mergeKind |-> "none", manual |-> FALSE]
            /\ prPc' = "returned"
            /\ UNCHANGED <<prWait, prAttempt>>
    /\ UNCHANGED <<prOpts, prExistingMerged, prSeen, prResolution, prMergeResponse,
                   prRemote, prRun, prOpenAtLookup, prExisting,
                   prCalls, prLastPoll, prNeedRepoll, prMergeRet>>
    /\ UNCHANGED <<rfVars, acVars, plVars, pdVars, rnVars, wcVars, lgVars, ckVars, ubVars>>

MReturnUnflagged(success, kind, manual) ==
    /\ prMergeRet' = [success |-> success, kind |-> kind, manual |-> FALSE]
    /\ prPc' = "merged"

\* A return of mergeGitHubPR.
MReturn(success, kind, manual) ==
    /\ prMergeRet' = [success |-> success, kind |-> kind, manual |-> manual]
    /\ prPc' = "merged"

MContinueSameAttempt(wait) ==
    /\ prWait' = wait
    /\ prAttempt' = prAttempt
    /\ prPc' = "poll" /\ UNCHANGED prMergeRet

\* `continue`: the next turn of the loop, or the return after the loop
\* (lines 661, 820-823)
MContinue(wait) ==
    /\ prWait' = wait
    /\ prAttempt' = prAttempt + 1
    /\ IF prAttempt + 1 <= MaxRetries
       THEN prPc' = "poll" /\ UNCHANGED prMergeRet
       ELSE MReturn(FALSE, "exhausted", FALSE)

AttemptsRemainAlways(attempt) == TRUE

\* attempt < maxRetries (lines 725, 741, 786, 803)
AttemptsRemain(attempt) == attempt < MaxRetries

DirtyStepTriesMerge(hasGit) == "merge"

\* What follows a poll that says mergeable_state 'dirty': the resolution
\* when the options hold git, branchName, baseBranch and remote (line 687),
\* else the return of lines 717-721
DirtyStep(hasGit) == IF hasGit THEN "resolve" ELSE "return"

NotMergeableErrorNever(o) == FALSE

\* errorMessage.includes('not mergeable') (line 786)
NotMergeableError(o) == o = "notMergeable"

FallsThroughToMergeOnlyClean(o) == o = "clean"

\* The poll answers after which control reaches the merge request of line
\* 755: the status call failed (lines 664-666), or no branch of lines
\* 671-752 returned or continued, mergeable being neither false nor null.
FallsThroughToMerge(o) == o \in {"fail", "clean"}

\* What the remote can answer to a status poll.
PollAnswers ==
    IF prRemote.merged THEN {"fail", "merged"} ELSE PollOutcomes

\* One more poll with answer o.
Seen(seen, o) ==
    IF o \in DOMAIN seen THEN [seen EXCEPT ![o] = @ + 1] ELSE seen

\* getPRStatus and the branches on its answer (lines 662-753)
MPoll ==
    /\ prPc = "poll"
    /\ prAttempt <= MaxRetries
    /\ \E o \in PollAnswers :
         /\ prLastPoll' = o
         /\ prSeen' = Seen(prSeen, o)
         /\ prResolution' = IF o = "dirty" /\ DirtyStep(prOpts.hasGit) = "return"
                            THEN "skipped" ELSE "none"
         /\ prRemote' = IF o = "merged"
                        THEN [prRemote EXCEPT !.merged = TRUE, !.open = FALSE]
                        ELSE prRemote
         /\ CASE FallsThroughToMerge(o) ->
                   prPc' = "merge" /\ UNCHANGED <<prWait, prAttempt, prMergeRet>>
              [] o = "merged" ->
                   MReturn(TRUE, "alreadyMerged", FALSE) /\ UNCHANGED <<prWait, prAttempt>>
              [] o = "dirty" ->
                   CASE DirtyStep(prOpts.hasGit) = "resolve" ->
                          prPc' = "resolve" /\ UNCHANGED <<prWait, prAttempt, prMergeRet>>
                     [] DirtyStep(prOpts.hasGit) = "return" ->
                          MReturn(FALSE, "conflict", TRUE) /\ UNCHANGED <<prWait, prAttempt>>
                     [] OTHER ->
                          prPc' = "merge" /\ UNCHANGED <<prWait, prAttempt, prMergeRet>>
              [] o = "blocked" ->
                   IF AttemptsRemain(prAttempt)
                   THEN MContinue(BlockedWait(prAttempt))
                   ELSE MReturn(FALSE, "notMergeable", FALSE) /\ UNCHANGED <<prWait, prAttempt>>
              [] o = "unknown" ->
                   IF AttemptsRemain(prAttempt)
                   THEN MContinue(UnknownWait(prAttempt))
                   ELSE MReturn(FALSE, "checkTimedOut", FALSE) /\ UNCHANGED <<prWait, prAttempt>>
              [] OTHER ->
                   MReturn(FALSE, "statusFailed", FALSE) /\ UNCHANGED <<prWait, prAttempt>>
    /\ prCalls' = [prCalls EXCEPT !.poll = @ + 1]
    /\ prNeedRepoll' = FALSE
    /\ prMergeResponse' = "none"
    /\ UNCHANGED <<prOpts, prExistingMerged, prRun, prOpenAtLookup, prExisting, prRet>>
    /\ UNCHANGED <<rfVars, acVars, plVars, pdVars, rnVars, wcVars, lgVars, ckVars, ubVars>>

\* updateBranchWithBase and what follows it (lines 687-721)
MResolve ==
    /\ prPc = "resolve"
    /\ prCalls' = [prCalls EXCEPT !.resolve = @ + 1]
    /\ \E u \in UpdateOutcomes :
         /\ prResolution' = u
         /\ CASE u = "ok" ->
                /\ MContinue(ResolvedWaitMs)
                /\ prNeedRepoll' = TRUE
              [] u = "manual" ->
                /\ MReturn(FALSE, "conflictManual", TRUE)
                /\ UNCHANGED <<prWait, prAttempt, prNeedRepoll>>
              [] u = "fail" ->
                /\ MReturn(FALSE, "conflict", TRUE)
                /\ UNCHANGED <<prWait, prAttempt, prNeedRepoll>>
    /\ UNCHANGED <<prOpts, prExistingMerged, prSeen, prMergeResponse,
                   prRemote, prRun, prOpenAtLookup, prExisting,
                   prLastPoll, prRet>>
    /\ UNCHANGED <<rfVars, acVars, plVars, pdVars, rnVars, wcVars, lgVars, ckVars, ubVars>>

\* The merge request and the branches on its answer (lines 755-817)
MMerge ==
    /\ prPc = "merge"
    /\ prCalls' = [prCalls EXCEPT !.merge = @ + 1]
    /\ \E o \in (IF prRemote.merged THEN MergeOutcomes \ {"ok"} ELSE MergeOutcomes) :
         /\ prMergeResponse' = o
         /\ CASE o = "ok" ->
                /\ prRemote' = [prRemote EXCEPT !.merged = TRUE, !.open = FALSE]
                /\ MReturn(TRUE, "merged", FALSE)
                /\ UNCHANGED <<prWait, prAttempt>>
              [] o \in {"notMergeable", "httpError"} ->
                /\ UNCHANGED prRemote
                /\ IF NotMergeableError(o) /\ AttemptsRemain(prAttempt)
                   THEN MContinue(BlockedWait(prAttempt))
                   ELSE MReturn(FALSE, "mergeFailed", FALSE) /\ UNCHANGED <<prWait, prAttempt>>
              [] o = "exception" ->
                /\ UNCHANGED prRemote
                /\ IF AttemptsRemain(prAttempt)
                   THEN MContinue(UnknownWait(prAttempt))
                   ELSE MReturn(FALSE, "mergeException", FALSE) /\ UNCHANGED <<prWait, prAttempt>>
    /\ UNCHANGED <<prOpts, prExistingMerged, prSeen, prResolution,
                   prRun, prOpenAtLookup, prExisting, prLastPoll,
                   prNeedRepoll, prRet>>
    /\ UNCHANGED <<rfVars, acVars, plVars, pdVars, rnVars, wcVars, lgVars, ckVars, ubVars>>

\* result.merged = mergeResult.success; result.mergeMessage = mergeResult.message
\* (lines 919-940)
CMFinish ==
    /\ prPc = "merged"
    /\ prRet' = [success |-> TRUE, kind |-> "mergeTried",
                 prCreated |-> ~prExisting, merged |-> prMergeRet.success,
                 mergeKind |-> prMergeRet.kind, manual |-> FALSE]
    /\ prPc' = "returned"
    /\ UNCHANGED <<prOpts, prExistingMerged, prSeen, prResolution, prMergeResponse,
                   prRemote, prRun, prOpenAtLookup, prExisting, prAttempt,
                   prCalls, prLastPoll, prWait, prNeedRepoll, prMergeRet>>
    /\ UNCHANGED <<rfVars, acVars, plVars, pdVars, rnVars, wcVars, lgVars, ckVars, ubVars>>

\* The controller is called again for the same head and base, as a later
\* run over the same date does.
CMAgain ==
    /\ prPc = "returned"
    /\ prRun < MaxRuns
    /\ prRun' = prRun + 1
    /\ prPc' = "start"
    /\ prOpenAtLookup' = FALSE
    /\ prExisting' = FALSE
    /\ prExistingMerged' = FALSE
    /\ prSeen' = NoSeen
    /\ prResolution' = "none"
    /\ prMergeResponse' = "none"
    /\ prAttempt' = 0
    /\ prCalls' = NoCalls
    /\ prLastPoll' = "none"
    /\ prWait' = 0
    /\ prNeedRepoll' = FALSE
    /\ prMergeRet' = NoMergeRet
    /\ prRet' = NoRet
    /\ UNCHANGED <<prOpts, prRemote>>
    /\ UNCHANGED <<rfVars, acVars, plVars, pdVars, rnVars, wcVars, lgVars, ckVars, ubVars>>

InitPR ==
    /\ prPc = "start"
    /\ prOpts \in [platform : {"github", "gitlab", "none"}, repoInfoOk : BOOLEAN,
                   autoMerge : BOOLEAN, hasGit : BOOLEAN]
    /\ prRemote \in { [open |-> o, merged |-> FALSE, created |-> 0] : o \in BOOLEAN }
    /\ prRun = 1
    /\ prOpenAtLookup = FALSE
    /\ prExisting = FALSE
    /\ prExistingMerged = FALSE
    /\ prSeen = NoSeen
    /\ prResolution = "none"
    /\ prMergeResponse = "none"
    /\ prAttempt = 0
    /\ prCalls = NoCalls
    /\ prLastPoll = "none"
    /\ prWait = 0
    /\ prNeedRepoll = FALSE
    /\ prMergeRet = NoMergeRet
    /\ prRet = NoRet
    /\ RfIdle
    /\ AcIdle
    /\ PlIdle
    /\ PdIdle
    /\ RnIdle
    /\ WcIdle
    /\ LgIdle
    /\ CkIdle
    /\ UbIdle

NextPR ==
    \/ CMStart \/ CMLookup \/ CMCreate \/ CMAfterCreate
    \/ MPoll \/ MResolve \/ MMerge \/ CMFinish \/ CMAgain

SpecPR == InitPR /\ [][NextPR]_vars

\* C6: whenever an open request with the same head and base exists on the
\* remote, a call of createAndMergePR issues no create-request call,
\* whatever the lookup call's outcome.
C6_NoCreateWhenOpenExists ==
    prOpenAtLookup => prCalls.create = 0

\* C7: whenever conflict auto-resolution succeeded inside mergeGitHubPR, at
\* whichever attempt, the controller polls the status again before it
\* returns.
C7_RepollAfterResolution ==
    prPc \in {"merged", "returned"} => ~prNeedRepoll

\* C11: when mergeGitHubPR returns requiresManualResolution = true, the
\* object createAndMergePR returns carries requiresManualResolution = true.
C11_ManualResolutionReported ==
    (prPc = "returned" /\ prRet.kind = "mergeTried" /\ prMergeRet.manual)
        => prRet.manual

\* C23: when auto-merge is not requested, createAndMergePR performs only
\* the lookup and, if nothing is found, the create call; it never polls
\* the status, never invokes conflict resolution and never issues a merge
\* call.
C23_NoMergeWorkUnlessAsked ==
    ~prOpts.autoMerge =>
        /\ prCalls.poll = 0 /\ prCalls.resolve = 0 /\ prCalls.merge = 0
        /\ prCalls.lookup <= 1 /\ prCalls.create <= 1
        /\ prExisting => prCalls.create = 0
        /\ prPc \notin {"poll", "resolve", "merge", "merged"}

C23_Witness ==
    /\ ~prOpts.autoMerge
    /\ prPc = "returned" /\ prRet.kind = "noMerge"
    /\ prCalls.lookup = 1 /\ prCalls.create = 1

\* C24: when a status poll reports mergeable false with mergeable_state
\* 'dirty', mergeGitHubPR issues no merge call in that attempt, and it
\* invokes updateBranchWithBase for every such poll when git handle, branch
\* name, base branch and remote are at hand (and for none when they are
\* not).
C24_DirtyResolvesNotMerges ==
    /\ prLastPoll = "dirty" => (prPc # "merge" /\ prMergeResponse = "none")
    /\ prCalls.resolve + (IF prPc = "resolve" THEN 1 ELSE 0)
         = IF prOpts.hasGit THEN prSeen.dirty ELSE 0

C24_Witness ==
    /\ prLastPoll = "dirty" /\ prOpts.hasGit
    /\ prCalls.resolve = 1 /\ prResolution = "ok" /\ prPc = "poll"

\* C25: while every status poll of a call reports mergeable false with a
\* state other than 'dirty', mergeGitHubPR waits and polls again; at the
\* attempt ceiling it returns the failure "not mergeable", and it has
\* issued no merge call.
C25_BlockedUntilCeiling ==
    (prCalls.poll >= 1 /\ prSeen.blocked = prCalls.poll) =>
        /\ prCalls.merge = 0 /\ prCalls.resolve = 0
        /\ prPc = "poll" =>
              /\ prCalls.poll < MaxRetries
              /\ prAttempt = prCalls.poll + 1
              /\ prWait = BlockedWait(prCalls.poll)
        /\ prPc \in {"merged", "returned"} =>
              /\ prCalls.poll = MaxRetries
              /\ ~prMergeRet.success
              /\ prMergeRet.kind = "notMergeable"
        /\ prPc \in {"poll", "merged", "returned"}

C25_Witness ==
    /\ prPc = "merged" /\ prMergeRet.kind = "notMergeable"
    /\ prSeen.blocked = MaxRetries /\ prCalls.poll = MaxRetries
    /\ prCalls.merge = 0

\* C26: polls that report mergeable null have a ceiling of their own: a
\* call that has issued no merge request and no resolution gives up on a
\* null answer only when the null answers alone have reached the ceiling,
\* however many blocked answers came before.
C26_UnknownHasOwnCeiling ==
    (prMergeRet.kind = "checkTimedOut" /\ prCalls.merge = 0 /\ prCalls.resolve = 0)
        => prSeen.unknown = MaxRetries

\* C27: the wait before the poll that follows attempt a is
\* min(5000 a, 30000) ms after a blocked answer and min(3000 a, 20000) ms
\* after a null answer; for a in 1..maxRetries-1 the second is strictly
\* shorter than the first and neither exceeds its cap.
C27_Backoff ==
    /\ (prPc = "poll" /\ prLastPoll = "blocked") =>
          prWait = (IF 5000 * (prAttempt - 1) <= 30000
                    THEN 5000 * (prAttempt - 1) ELSE 30000)
    /\ (prPc = "poll" /\ prLastPoll = "unknown") =>
          prWait = (IF 3000 * (prAttempt - 1) <= 20000
                    THEN 3000 * (prAttempt - 1) ELSE 20000)
    /\ \A a \in 1..(MaxRetries - 1) :
          /\ UnknownWait(a) < BlockedWait(a)
          /\ BlockedWait(a) <= 30000
          /\ UnknownWait(a) <= 20000

C27_Witness ==
    /\ prPc = "poll" /\ prLastPoll = "unknown"
    /\ prAttempt = MaxRetries /\ prWait = 12000
    /\ prSeen.blocked >= 1

\* C28: whenever conflict resolution is attempted from mergeGitHubPR and
\* fails, with or without a request for manual resolution, or is not
\* attempted for want of a repository handle, mergeGitHubPR has returned:
\* a failure with requiresManualResolution = true, reached in the same
\* step, so with no merge request in between.
C28_FailedResolutionIsManual ==
    prResolution \in {"manual", "fail", "skipped"} =>
        /\ prPc \in {"merged", "returned"}
        /\ ~prMergeRet.success
        /\ prMergeRet.manual
        /\ prLastPoll = "dirty"
        /\ prMergeResponse = "none"

C28_Witness ==
    /\ prResolution = "fail" /\ prPc = "merged"
    /\ prMergeRet.manual /\ prCalls.resolve = 1

\* C29: when the merge request is rejected with a 'not mergeable' error
\* and attempts remain, mergeGitHubPR waits and goes back to polling; when
\* the rejection carries another error, or no attempts remain, it returns
\* a failure at once.
C29_MergeRejection ==
    /\ prMergeResponse = "notMergeable" =>
          \/ /\ prPc = "poll"
             /\ prAttempt \in 2..MaxRetries
             /\ prWait = BlockedWait(prAttempt - 1)
          \/ /\ prPc \in {"merged", "returned"}
             /\ prAttempt = MaxRetries
             /\ ~prMergeRet.success /\ prMergeRet.kind = "mergeFailed"
    /\ prMergeResponse = "httpError" =>
          /\ prPc \in {"merged", "returned"}
          /\ ~prMergeRet.success /\ prMergeRet.kind = "mergeFailed"
    /\ (prMergeResponse = "exception" /\ prPc \in {"merged", "returned"}) =>
          /\ prAttempt = MaxRetries
          /\ ~prMergeRet.success

C29_Witness ==
    /\ prMergeResponse = "notMergeable" /\ prPc = "poll"
    /\ prAttempt = 2 /\ prCalls.merge = 1

\* C30: a request that is already merged when first observed, in the
\* lookup's answer or in a status poll, is reported as merged at once:
\* no merge request and no conflict resolution follow the observation.
C30_AlreadyMergedShortCircuit ==
    /\ prLastPoll = "merged" =>
          /\ prPc \in {"merged", "returned"}
          /\ prMergeRet.success
          /\ prMergeResponse = "none" /\ prResolution = "none"
          /\ prPc = "returned" => prRet.merged = TRUE
    /\ (prExistingMerged /\ prOpts.autoMerge) => prPc \in {"created", "returned"}
    /\ (prExistingMerged /\ prOpts.autoMerge /\ prPc = "returned") =>
          /\ prRet.success /\ prRet.merged = TRUE
          /\ prCalls.poll = 0 /\ prCalls.merge = 0 /\ prCalls.resolve = 0

C30_Witness ==
    /\ prLastPoll = "merged" /\ prPc = "returned"
    /\ prRet.merged = TRUE /\ prCalls.poll = 1 /\ prCalls.merge = 0

\* mergeGitHubPR is running: between its first poll and its return.
InMergeLoop == prPc \in {"poll", "resolve", "merge"}

\* C31: mergeGitHubPR always returns, whatever the remote answers and
\* whatever is thrown: every turn of its loop has an attempt number of at
\* most maxRetries, and one call makes at most maxRetries status polls, at
\* most maxRetries merge requests and at most maxRetries conflict
\* resolutions.
C31_MergeLoopBounded ==
    /\ [](/\ InMergeLoop => prAttempt \in 1..MaxRetries
          /\ prCalls.poll <= MaxRetries
          /\ prCalls.merge <= MaxRetries
          /\ prCalls.resolve <= MaxRetries
          /\ prCalls.merge <= prCalls.poll
          /\ prCalls.resolve <= prCalls.poll)
    /\ (InMergeLoop ~> prPc = "merged")

\* A call that used every turn: five polls, the last one answered by a
\* merge request that threw.
C31_Witness ==
    /\ prPc = "merged"
    /\ prCalls.poll = MaxRetries
    /\ prCalls.merge = MaxRetries
    /\ prAttempt = MaxRetries
    /\ prMergeRet.kind = "mergeException"

\* C32: in each attempt of mergeGitHubPR the merge request is sent if and
\* only if the attempt's status poll failed or reported the request as not
\* merged with mergeable neither false nor null; after a poll that says
\* mergeable false, mergeable null or merged, no merge request is sent in
\* that attempt.
C32_MergeIffPollAllows ==
    /\ (prPc = "merge" \/ prMergeResponse # "none") <=> prLastPoll \in {"fail", "clean"}
    /\ prLastPoll \in {"merged", "dirty", "blocked", "unknown"} =>
          (prPc # "merge" /\ prMergeResponse = "none")
    /\ prCalls.merge <= prCalls.poll

\* A first poll said blocked and no merge request followed; the second
\* poll failed and the merge request was sent all the same.
C32_Witness ==
    /\ prSeen.blocked = 1
    /\ prCalls.poll = 2
    /\ prLastPoll = "fail"
    /\ prCalls.merge = 1
    /\ prMergeResponse = "ok"


(***************************************************************************)
(* The calendar filter of dateUtils.js.  A date is a day of September      *)
(* 2024: the 1st is a Sunday, and the 2nd is a holiday of the US table.    *)
(***************************************************************************)
\* Bound: the last day of the modelled calendar.
MaxDay == 4

Days == 1..MaxDay

\* date.getDay() === 0
IsSunday(d) == (d - 1) % 7 = 0

\* COUNTRY_HOLIDAYS[countryCode] || COUNTRY_HOLIDAYS['NONE'], as days
HolidaysOf(country) == IF country = "US" THEN {2} ELSE {}

IsHoliday(d, country) == d \in HolidaysOf(country)

ShouldExcludeDate(d, country) == IsSunday(d) \/ IsHoliday(d, country)

\* getValidDates: the loop from startDate to endDate
RECURSIVE GetValidDates(_, _, _)
GetValidDates(cur, end, country) ==
    IF cur > end THEN <<>>
    ELSE (IF ShouldExcludeDate(cur, country) THEN <<>> ELSE <<cur>>)
         \o GetValidDates(cur + 1, end, country)

(***************************************************************************)
(* The work partitioner of /api/process-stream (lines 464-544).            *)
(***************************************************************************)
\* Bounds: the largest branch count and commit budget a request asks for.
MaxBranches == 3
MaxCommits == 4

\* What parseInt gives for a value that is not a number, kept apart from
\* every count a request names; it is only ever tested with IsNaN.
NaN == 0 - 1

IsNaN(x) == x = NaN

\* A request: the dates as the days they name, the two counts as parseInt
\* reads them, whether a required field is missing, whether both dates can
\* be parsed, and whether the server's clock is behind UTC.
PlanInputs ==
    [ startDate : Days, endDate : Days,
      numBranches : (0..MaxBranches) \union {NaN},
      totalCommits : (0..MaxCommits) \union {NaN},
      country : {"US", "NONE"},
      missing : BOOLEAN, datesOk : BOOLEAN, west : BOOLEAN ]

\* new Date('YYYY-MM-DD') is midnight UTC of that day; getDay, getMonth,
\* getDate and formatDate read it in local time, where behind UTC it is
\* still the evening of the day before.
ParseDate(day, west) == IF west THEN day - 1 ELSE day

\* The orders a sort with a random comparator can leave an array in.
Shuffles(arr) ==
    LET n == Len(arr)
        perms == { f \in [1..n -> 1..n] : \A i, j \in 1..n : f[i] = f[j] => i = j }
    IN { [i \in 1..n |-> arr[f[i]]] : f \in perms }

PlanFailGoesOn(msg) ==
    /\ plError' = msg
    /\ plPc' = "planned"

\* sendSSE(res, 'error', ...); res.end(); return
PlanFail(msg) ==
    /\ plError' = msg
    /\ plPc' = "ended"

\* The checks of the request (lines 464-506)
PlanValidate ==
    /\ plPc = "validate"
    /\ IF plIn.missing THEN PlanFail("missing")
       ELSE IF IsNaN(plIn.numBranches) \/ plIn.numBranches < 1 THEN PlanFail("branches")
       ELSE IF IsNaN(plIn.totalCommits) \/ plIn.totalCommits < 1 THEN PlanFail("commits")
       ELSE IF plIn.totalCommits < plIn.numBranches THEN PlanFail("fewerCommits")
       ELSE IF ~plIn.datesOk THEN PlanFail("dateFormat")
       ELSE IF ParseDate(plIn.startDate, plIn.west) > ParseDate(plIn.endDate, plIn.west)
            THEN PlanFail("range")
       ELSE plPc' = "pool" /\ UNCHANGED plError
    /\ UNCHANGED <<plIn, plValid, plActual, plAdjusted, plDates, plCommits, plLeft>>
    /\ UNCHANGED <<rfVars, acVars, prVars, pdVars, rnVars, wcVars, lgVars, ckVars, ubVars>>

\* getValidDates and the empty pool (lines 508-516)
PlanPool ==
    /\ plPc = "pool"
    /\ LET validDates == GetValidDates(ParseDate(plIn.startDate, plIn.west),
                                       ParseDate(plIn.endDate, plIn.west),
                                       plIn.country)
       IN /\ plValid' = validDates
          /\ IF Len(validDates) = 0
             THEN PlanFail("noValidDates")
             ELSE plPc' = "clamp" /\ UNCHANGED plError
    /\ UNCHANGED <<plIn, plActual, plAdjusted, plDates, plCommits, plLeft>>
    /\ UNCHANGED <<rfVars, acVars, prVars, pdVars, rnVars, wcVars, lgVars, ckVars, ubVars>>

ClampAlways(requested, available) == available

\* actualNumBranches (lines 519-525)
Clamp(requested, available) ==
    IF available < requested THEN available ELSE requested

PlanClamp ==
    /\ plPc = "clamp"
    /\ plActual' = Clamp(plIn.numBranches, Len(plValid))
    /\ plAdjusted' = (Len(plValid) < plIn.numBranches)
    /\ plPc' = "select"
    /\ UNCHANGED <<plIn, plValid, plDates, plCommits, plLeft, plError>>
    /\ UNCHANGED <<rfVars, acVars, prVars, pdVars, rnVars, wcVars, lgVars, ckVars, ubVars>>

\* shuffledDates.slice(0, actualNumBranches), the array of ones and
\* remainingCommits (lines 527-535)
PlanSelect ==
    /\ plPc = "select"
    /\ \E shuffledDates \in Shuffles(plValid) :
         plDates' = SubSeq(shuffledDates, 1, plActual)
    /\ plCommits' = [i \in 1..plActual |-> 1]
    /\ plLeft' = plIn.totalCommits - plActual
    /\ plPc' = "distribute"
    /\ UNCHANGED <<plIn, plValid, plActual, plAdjusted, plError>>
    /\ UNCHANGED <<rfVars, acVars, prVars, pdVars, rnVars, wcVars, lgVars, ckVars, ubVars>>

GiveCommitNowhere(counts, b) == counts

\* commitsPerBranch[randomBranch]++
GiveCommit(counts, b) == [counts EXCEPT ![b] = @ + 1]

\* One turn of the loop over remainingCommits (lines 538-541)
PlanDistribute ==
    /\ plPc = "distribute"
    /\ plLeft > 0
    /\ \E randomBranch \in 1..plActual :
         plCommits' = GiveCommit(plCommits, randomBranch)
    /\ plLeft' = plLeft - 1
    /\ UNCHANGED <<plPc, plIn, plValid, plActual, plAdjusted, plDates, plError>>
    /\ UNCHANGED <<rfVars, acVars, prVars, pdVars, rnVars, wcVars, lgVars, ckVars, ubVars>>

\* commitsPerBranch.sort(() => Math.random() - 0.5) (line 544)
PlanShuffle ==
    /\ plPc = "distribute"
    /\ plLeft <= 0
    /\ plCommits' \in Shuffles(plCommits)
    /\ plPc' = "planned"
    /\ UNCHANGED <<plIn, plValid, plActual, plAdjusted, plDates, plLeft, plError>>
    /\ UNCHANGED <<rfVars, acVars, prVars, pdVars, rnVars, wcVars, lgVars, ckVars, ubVars>>

InitPlan ==
    /\ plPc = "validate"
    /\ plIn \in PlanInputs
    /\ plValid = <<>>
    /\ plActual = 0
    /\ plAdjusted = FALSE
    /\ plDates = <<>>
    /\ plCommits = <<>>
    /\ plLeft = 0
    /\ plError = "none"
    /\ RfIdle
    /\ AcIdle
    /\ PrIdle
    /\ PdIdle
    /\ RnIdle
    /\ WcIdle
    /\ LgIdle
    /\ CkIdle
    /\ UbIdle

NextPlan ==
    \/ PlanValidate \/ PlanPool \/ PlanClamp \/ PlanSelect
    \/ PlanDistribute \/ PlanShuffle

SpecPlan == InitPlan /\ [][NextPlan]_vars

RECURSIVE SumSeq(_)
SumSeq(q) == IF q = <<>> THEN 0 ELSE Head(q) + SumSeq(Tail(q))

\* The eligible dates of the range getValidDates is given, read off the
\* calendar.
EligiblePool ==
    { d \in ParseDate(plIn.startDate, plIn.west)..ParseDate(plIn.endDate, plIn.west) :
        ~IsSunday(d) /\ d \notin HolidaysOf(plIn.country) }

\* A request that passes the checks and has a non-empty eligible pool.
ValidRequest ==
    /\ ~plIn.missing
    /\ plIn.datesOk
    /\ ~IsNaN(plIn.numBranches)
    /\ ~IsNaN(plIn.totalCommits)
    /\ plIn.numBranches >= 1
    /\ plIn.totalCommits >= plIn.numBranches
    /\ plIn.startDate <= plIn.endDate
    /\ EligiblePool # {}

\* The days of the requested range that are neither a Sunday nor a holiday
\* of the request's country.
RequestedPool ==
    { d \in plIn.startDate..plIn.endDate :
        ~IsSunday(d) /\ d \notin HolidaysOf(plIn.country) }

\* C18: the dates getValidDates returns for a request are, in ascending
\* order and without duplicates, exactly the days from the start date to the
\* end date that are neither a Sunday nor a holiday of the country.
C18_ValidDatesExact ==
    (plPc \in {"clamp", "select", "distribute", "planned"} \/ plError = "noValidDates") =>
        /\ \A i, j \in 1..Len(plValid) : i < j => plValid[i] < plValid[j]
        /\ { plValid[i] : i \in 1..Len(plValid) } = RequestedPool

\* C2: for every valid input, clamped or not, commitsPerBranch has one
\* entry per assignment, every entry is at least 1, and the entries sum to
\* the commit budget.
C2_CommitBudget ==
    plPc = "planned" =>
        /\ Len(plCommits) = Len(plDates)
        /\ \A i \in 1..Len(plCommits) : plCommits[i] >= 1
        /\ SumSeq(plCommits) = plIn.totalCommits

\* A clamped plan whose budget leaves commits to hand out.
C2_Witness ==
    /\ plPc = "planned"
    /\ plAdjusted
    /\ Len(plCommits) >= 2
    /\ \E i \in 1..Len(plCommits) : plCommits[i] >= 2

MaxCommitCount == 2

\* The answers createAndMergePR gives, reduced to what the caller reads.
PrOutcomes == {"failed", "created", "merged", "notMerged"}

NoResults == [branch |-> "none", commits |-> "none", push |-> "none", pr |-> "none"]

NoPdRet == [success |-> FALSE, stage |-> "none"]

PDReturn(success, stage) ==
    /\ pdRet' = [success |-> success, stage |-> stage]
    /\ pdPc' = "returned"

\* Where HEAD can be when processDate is called: on a base branch that
\* exists, or on the branch the assignment before left checked out.
Heads(repo) ==
    {"earlier"} \union (IF repo.main THEN {"main"} ELSE {})
                \union (IF repo.master THEN {"master"} ELSE {})

\* The base checkout (lines 1128-1165): main, else master, else the
\* current branch.  A checkout of a branch that exists can still throw
\* (changes in the working tree that it would overwrite, an unfinished
\* merge, a locked index); the pulls are inside their own try.
PDBase ==
    /\ pdPc = "base"
    /\ \E mainOk \in (IF pdRepo.main THEN BOOLEAN ELSE {FALSE}),
          masterOk \in (IF pdRepo.master THEN BOOLEAN ELSE {FALSE}),
          revparseOk \in BOOLEAN :
         /\ pdBase' = IF mainOk THEN "main"
                      ELSE IF masterOk THEN "master"
                      ELSE IF revparseOk THEN "current" ELSE "unknown"
         /\ pdHead' = IF mainOk THEN "main"
                      ELSE IF masterOk THEN "master" ELSE pdHead
    /\ pdSteps' = Append(pdSteps, "base")
    /\ pdPc' = "branch"
    /\ UNCHANGED <<pdIn, pdFrom, pdBranchLog, pdRepo, pdRemote, pdRemoteAtStart,
                   pdResults, pdMade, pdFile, pdLog,
                   pdPushes, pdPushLog, pdFault, pdRet>>
    /\ UNCHANGED <<rfVars, acVars, prVars, plVars, rnVars, wcVars, lgVars, ckVars, ubVars>>

AfterBranchNoGate(ok) == "commits"

\* if (!branchResult.success) return (lines 1173-1175)
AfterBranch(ok) == IF ok THEN "commits" ELSE "returned"

\* branchExistsOnRemote (lines 156-168): false when the fetch throws
ExistsRemotely(fetchOk, remoteBranch) == fetchOk /\ remoteBranch # "absent"

DeleteFirstNever(existsRemotely, forcePush) == FALSE

\* if (existsRemotely && !forcePush) (line 209)
DeleteFirst(existsRemotely, forcePush) == existsRemotely /\ ~forcePush

\* The git calls createBranch issues, given how each one ends (lines
\* 201-232); a throw of branchLocal or of the checkout ends the call, a
\* failed deletion does not
BranchCalls(listOk, fetchOk, delete, deleteOk, existsLocally, checkoutOk) ==
    <<[op |-> "branchLocal", ok |-> listOk]>>
    \o (IF listOk
        THEN <<[op |-> "fetch", ok |-> fetchOk]>>
             \o (IF delete THEN <<[op |-> "deleteRemote", ok |-> deleteOk]>> ELSE <<>>)
             \o <<[op |-> IF existsLocally THEN "checkout" ELSE "checkoutLocalBranch",
                   ok |-> checkoutOk]>>
        ELSE <<>>)

\* createBranch (lines 196-248, called at line 1170 with forcePush false)
PDCreateBranch ==
    /\ pdPc = "branch"
    /\ \E listOk \in BOOLEAN,
          fetchOk \in (IF pdRepo.remoteName THEN BOOLEAN ELSE {FALSE}),
          deleteOk \in BOOLEAN, checkoutOk \in BOOLEAN :
         LET existsLocally == pdRepo.local
             existsRemotely == ExistsRemotely(fetchOk, pdRemote)
             delete == DeleteFirst(existsRemotely, FALSE)
             ok == listOk /\ checkoutOk
         IN /\ pdBranchLog' = BranchCalls(listOk, fetchOk, delete, deleteOk,
                                          existsLocally, checkoutOk)
            /\ pdRemote' = IF listOk /\ delete /\ deleteOk
                           THEN "absent" ELSE pdRemote
            /\ pdRepo' = [pdRepo EXCEPT !.local = @ \/ ok]
            /\ pdHead' = IF ok THEN "assigned" ELSE pdHead
            /\ pdFrom' = IF ~ok THEN pdFrom
                         ELSE IF existsLocally THEN "existing" ELSE pdHead
            /\ pdResults' = [pdResults EXCEPT !.branch = IF ok THEN "ok" ELSE "fail"]
            /\ pdPc' = AfterBranch(ok)
            /\ pdRet' = IF AfterBranch(ok) = "returned"
                        THEN [success |-> FALSE, stage |-> "branch"] ELSE pdRet
    /\ pdSteps' = Append(pdSteps, "branch")
    /\ UNCHANGED <<pdIn, pdRemoteAtStart, pdBase, pdMade, pdFile, pdLog, pdPushes,
                   pdPushLog, pdFault>>
    /\ UNCHANGED <<rfVars, acVars, prVars, plVars, rnVars, wcVars, lgVars, ckVars, ubVars>>

\* createCommits up to its loop (lines 258-293, called at line 1178)
PDCommitsBegin ==
    /\ pdPc = "commits"
    /\ pdSteps' = Append(pdSteps, "commits")
    /\ \E readOk \in BOOLEAN :
         IF readOk
         THEN pdPc' = "commit" /\ UNCHANGED <<pdResults, pdRet>>
         ELSE /\ pdResults' = [pdResults EXCEPT !.commits = "fail"]
              /\ PDReturn(FALSE, "commits")
    /\ UNCHANGED <<pdIn, pdHead, pdFrom, pdBranchLog, pdRepo, pdRemote, pdRemoteAtStart, pdBase, pdMade, pdFile, pdLog,
                   pdPushes, pdPushLog, pdFault>>
    /\ UNCHANGED <<rfVars, acVars, prVars, plVars, rnVars, wcVars, lgVars, ckVars, ubVars>>

\* if (!commitResult.success) return (lines 1181-1183)
AfterCommits(ok) == IF ok THEN "push" ELSE "returned"

\* The hours a wall clock can show when a commit is made.
Clock == {100, 200}

\* new Date(year, month - 1, day, 12, 0, 0): noon of the day in local
\* time, as hours since midnight UTC of day 0; zone is the local offset
LocalNoon(day, zone) == day * 24 + 12 - zone

\* Date.prototype.toISOString: the instant written in UTC
ToISOString(instant) == [day |-> instant \div 24, hour |-> instant % 24]

\* git reading the value of --date
GitDate(iso) == iso.day * 24 + iso.hour

AuthorDateNow(day, zone, now) == now

\* The author date git.commit is given (lines 291, 304-310)
AuthorDate(day, zone, now) == GitDate(ToISOString(LocalNoon(day, zone)))

\* One turn of the loop of createCommits (lines 295-342): the line is
\* appended, the file staged and the commit made; after the last turn
\* createCommits returns success.
PDCommitOne ==
    /\ pdPc = "commit"
    /\ pdMade < pdIn.commitCount
    /\ \E wrote \in BOOLEAN, ok \in BOOLEAN, now \in Clock :
         LET done == wrote /\ ok
             made == IF done THEN pdMade + 1 ELSE pdMade
             over == ~done \/ made = pdIn.commitCount
         IN /\ pdMade' = made
            /\ pdFile' = IF wrote THEN pdFile + 1 ELSE pdFile
            /\ pdLog' = IF done
                        THEN Append(pdLog, [lines |-> pdFile + 1,
                                            author |-> AuthorDate(pdIn.date, pdIn.zone, now),
                                            committer |-> now])
                        ELSE pdLog
            /\ pdResults' = IF over
                            THEN [pdResults EXCEPT !.commits = IF done THEN "ok" ELSE "fail"]
                            ELSE pdResults
            /\ pdPc' = IF over THEN AfterCommits(done) ELSE "commit"
            /\ pdRet' = IF over /\ AfterCommits(done) = "returned"
                        THEN [success |-> FALSE, stage |-> "commits"] ELSE pdRet
    /\ UNCHANGED <<pdIn, pdHead, pdFrom, pdBranchLog, pdRepo, pdRemote, pdRemoteAtStart, pdBase, pdSteps,
                   pdPushes, pdPushLog, pdFault>>
    /\ UNCHANGED <<rfVars, acVars, prVars, plVars, rnVars, wcVars, lgVars, ckVars, ubVars>>

\* What git.push can end in: a push that is not forced is rejected as
\* non-fast-forward when the remote branch has diverged; any push can fail
\* for another reason (network, rights, the 30 second timeout).
PushKinds(remoteBranch, forcePush) ==
    (IF remoteBranch = "diverged" /\ ~forcePush THEN {"nff"} ELSE {"ok"})
        \union {"other"}

RetryForcedNever(forcePush, kind) == FALSE

RetryForcedOnAnyFailure(forcePush, kind) == ~forcePush /\ kind # "ok"

\* The catch of pushBranch (lines 387-391)
RetryForced(forcePush, kind) == ~forcePush /\ kind = "nff"

\* if (!pushResult.success) return, then the pull request on request
\* (lines 1189-1191, 1206)
AfterPush(ok, createPR) == IF ok /\ createPR THEN "pr" ELSE "returned"

\* pushBranch has returned kind to processDate (lines 1186-1191, 1278)
PDPushResult(kind) ==
    /\ pdResults' = [pdResults EXCEPT !.push = kind]
    /\ pdRemote' = IF kind = "ok" THEN "pushed" ELSE pdRemote
    /\ pdFault' = (pdFault \/ kind \in {"other", "noRemote"})
    /\ pdPc' = AfterPush(kind = "ok", pdIn.createPR)
    /\ pdRet' = IF AfterPush(kind = "ok", pdIn.createPR) = "returned"
                THEN [success |-> (kind = "ok"),
                      stage |-> IF kind = "ok" THEN "done" ELSE "push"]
                ELSE pdRet

\* pushBranch without force (lines 359-395, called at line 1186)
PDPush ==
    /\ pdPc = "push"
    /\ pdSteps' = Append(pdSteps, "push")
    /\ IF ~pdRepo.remoteName
       THEN PDPushResult("noRemote") /\ UNCHANGED <<pdPushes, pdPushLog>>
       ELSE /\ pdPushes' = pdPushes + 1
            /\ \E kind \in PushKinds(pdRemote, FALSE) :
                 /\ pdPushLog' = Append(pdPushLog, [forced |-> FALSE, kind |-> kind])
                 /\ IF RetryForced(FALSE, kind)
                    THEN /\ pdPc' = "forcePush"
                         /\ UNCHANGED <<pdResults, pdRemote, pdFault, pdRet>>
                    ELSE PDPushResult(kind)
    /\ UNCHANGED <<pdIn, pdHead, pdFrom, pdBranchLog, pdRepo, pdRemoteAtStart, pdBase, pdMade, pdFile, pdLog>>
    /\ UNCHANGED <<rfVars, acVars, prVars, plVars, rnVars, wcVars, lgVars, ckVars, ubVars>>

\* pushBranch called again with forcePush (line 390)
PDForcePush ==
    /\ pdPc = "forcePush"
    /\ pdPushes' = pdPushes + 1
    /\ \E kind \in PushKinds(pdRemote, TRUE) :
         /\ pdPushLog' = Append(pdPushLog, [forced |-> TRUE, kind |-> kind])
         /\ PDPushResult(kind)
    /\ UNCHANGED <<pdIn, pdHead, pdFrom, pdBranchLog, pdRepo, pdRemoteAtStart, pdBase, pdSteps, pdMade, pdFile, pdLog>>
    /\ UNCHANGED <<rfVars, acVars, prVars, plVars, rnVars, wcVars, lgVars, ckVars, ubVars>>

\* What the pull request step leaves in results.pr (lines 1214-1274)
PrStepResults(token) ==
    {"noUrl", "threw"} \union (IF token THEN PrOutcomes ELSE {"noToken"})

\* The pull request step (lines 1206-1278)
PDPullRequest ==
    /\ pdPc = "pr"
    /\ pdSteps' = Append(pdSteps, "pr")
    /\ \E r \in PrStepResults(pdIn.token) :
         pdResults' = [pdResults EXCEPT !.pr = r]
    /\ PDReturn(TRUE, "done")
    /\ UNCHANGED <<pdIn, pdHead, pdFrom, pdBranchLog, pdRepo, pdRemote, pdRemoteAtStart, pdBase, pdMade, pdFile, pdLog,
                   pdPushes, pdPushLog, pdFault>>
    /\ UNCHANGED <<rfVars, acVars, prVars, plVars, rnVars, wcVars, lgVars, ckVars, ubVars>>

InitDate ==
    /\ pdPc = "base"
    /\ pdIn \in [commitCount : 1..MaxCommitCount, createPR : BOOLEAN, token : BOOLEAN,
                 date : {2, 3}, zone : {0 - 5, 13}]
    /\ pdRepo \in [main : BOOLEAN, master : BOOLEAN, local : BOOLEAN,
                   remoteName : BOOLEAN]
    /\ pdRemote \in {"absent", "diverged"}
    /\ pdRemoteAtStart = pdRemote
    /\ pdBase = "main"
    /\ pdHead \in Heads(pdRepo)
    /\ pdFrom = "none"
    /\ pdBranchLog = <<>>
    /\ pdSteps = <<>>
    /\ pdResults = NoResults
    /\ pdMade = 0
    /\ pdPushes = 0
    /\ pdPushLog = <<>>
    /\ pdFile \in {0, 1}
    /\ pdLog = <<>>
    /\ pdFault = FALSE
    /\ pdRet = NoPdRet
    /\ RfIdle
    /\ AcIdle
    /\ PrIdle
    /\ PlIdle
    /\ RnIdle
    /\ WcIdle
    /\ LgIdle
    /\ CkIdle
    /\ UbIdle

NextDate ==
    \/ PDBase \/ PDCreateBranch \/ PDCommitsBegin \/ PDCommitOne
    \/ PDPush \/ PDForcePush \/ PDPullRequest

SpecDate == InitDate /\ [][NextDate]_vars

StepOrder == <<"base", "branch", "commits", "push", "pr">>

Began(step) == \E i \in 1..Len(pdSteps) : pdSteps[i] = step

\* C4: within one assignment the steps begin in the order base checkout,
\* branch creation, commits, push, pull request; no commit is made when
\* branch creation failed, no push is issued when commit creation failed,
\* and the pull request step is not begun when the push failed.
C4_StepOrder ==
    /\ Len(pdSteps) <= Len(StepOrder)
    /\ pdSteps = SubSeq(StepOrder, 1, Len(pdSteps))
    /\ pdResults.branch = "fail" => pdMade = 0 /\ ~Began("commits")
    /\ pdResults.commits = "fail" => pdPushes = 0 /\ ~Began("push")
    /\ pdResults.push \notin {"none", "ok"} => ~Began("pr") /\ pdResults.pr = "none"
    /\ Began("commits") => pdResults.branch = "ok"
    /\ Began("push") => pdResults.commits = "ok"
    /\ Began("pr") => pdResults.push = "ok"

\* All five steps ran, in order.
C4_Witness ==
    /\ pdPc = "returned"
    /\ pdSteps = StepOrder
    /\ pdResults.pr = "merged"

\* C13: when the remote name is not configured in the repository,
\* processDate creates no branch and makes no commit.
C13_MissingRemoteStopsRun ==
    ~pdRepo.remoteName => (pdResults.branch # "ok" /\ pdMade = 0)

\* C16: when createCommits returns success it has made exactly commitCount
\* commits, each after one more line was appended to commits.txt, and every
\* commit's author date is noon local time of the assignment's day,
\* whatever the wall clock shows.
C16_CommitsExact ==
    /\ pdResults.commits = "ok" =>
         /\ Len(pdLog) = pdIn.commitCount
         /\ \A k \in 1..Len(pdLog) : pdLog[k].lines = pdFile - pdIn.commitCount + k
    /\ \A k \in 2..Len(pdLog) : pdLog[k].lines = pdLog[k - 1].lines + 1
    /\ \A k \in 1..Len(pdLog) : pdLog[k].author + pdIn.zone = pdIn.date * 24 + 12
    /\ Len(pdLog) = pdMade

\* Two commits made at different wall-clock times, east of UTC where local
\* noon falls on the day before in UTC.
C16_Witness ==
    /\ pdResults.commits = "ok"
    /\ Len(pdLog) >= 2
    /\ pdIn.zone = 13
    /\ pdLog[1].committer # pdLog[2].committer

\* C20: one call of pushBranch issues at most two pushes; the first is not
\* forced, a second one is issued only after the first was rejected as
\* non-fast-forward and is forced, and every other failure, of the first
\* push or of the forced one, is returned as it is.
C20_AtMostTwoPushes ==
    /\ Len(pdPushLog) <= 2
    /\ Len(pdPushLog) = pdPushes
    /\ Len(pdPushLog) >= 1 => ~pdPushLog[1].forced
    /\ Len(pdPushLog) = 2 => (pdPushLog[1].kind = "nff" /\ pdPushLog[2].forced)
    /\ pdPc = "forcePush" => (Len(pdPushLog) = 1 /\ pdPushLog[1].kind = "nff")
    /\ pdResults.push # "none" =>
         IF Len(pdPushLog) = 0 THEN pdResults.push = "noRemote"
         ELSE /\ pdResults.push = pdPushLog[Len(pdPushLog)].kind
              /\ Len(pdPushLog) = 1 => pdPushLog[1].kind # "nff"

\* The first push was rejected as non-fast-forward and the forced one
\* failed; that failure was returned.
C20_Witness ==
    /\ Len(pdPushLog) = 2
    /\ pdPushLog[2].kind = "other"
    /\ pdResults.push = "other"
    /\ pdPc = "returned"

\* Position of the call op in the calls of createBranch, 0 when it was not
\* issued.
CallAt(op) ==
    IF \E i \in 1..Len(pdBranchLog) : pdBranchLog[i].op = op
    THEN CHOOSE i \in 1..Len(pdBranchLog) : pdBranchLog[i].op = op
    ELSE 0

C22_StartsFromBase ==
    pdFrom \notin {"none", "existing"} =>
        pdFrom = (IF pdRepo.main THEN "main"
                  ELSE IF pdRepo.master THEN "master" ELSE pdFrom)

MaxAssign == 2

\* The record processDate returns, as far as the loop reads it.
DateResult(success, stage, made, pr) ==
    [success |-> success, stage |-> stage, made |-> made, pr |-> pr]

\* The returns of processDate(git, date, commitCount, ..., prOptions)
\* (lines 1173-1175, 1181-1183, 1189-1191, 1278)
ProcessDateReturns(commitCount, req) ==
    {DateResult(FALSE, "branch", 0, "none")}
    \union {DateResult(FALSE, "commits", k, "none") : k \in 0..(commitCount - 1)}
    \union {DateResult(FALSE, "push", commitCount, "none")}
    \union {DateResult(TRUE, "done", commitCount, r) :
              r \in (IF req.createPR THEN PrStepResults(req.token) ELSE {"none"})}

TerminalEventLost(events, type) == events

\* sendSSE(res, type, ...) of a terminal event, followed by res.end()
TerminalEvent(events, type) == Append(events, type)

ClearTimersNever(timers) == timers

\* clearInterval of both intervals (lines 641-642, 666), and in the outer
\* catch of those that were set (lines 695-700)
ClearTimers(timers) == IF timers = "unset" THEN "unset" ELSE "cleared"

\* initGit, prOptions and the two intervals (lines 548-588); a throw of
\* initGit lands in the outer catch (lines 694-703)
RunInit ==
    /\ plPc = "planned"
    /\ rnPc = "init"
    /\ rnInitCalls' = rnInitCalls + 1
    /\ \E initOk \in BOOLEAN :
         IF initOk
         THEN /\ rnTimers' = "running"
              /\ rnI' = 1
              /\ rnPc' = "loop"
              /\ UNCHANGED rnEvents
         ELSE /\ rnEvents' = TerminalEvent(rnEvents, "error")
              /\ rnPc' = "ended"
              /\ rnTimers' = ClearTimers(rnTimers)
              /\ UNCHANGED rnI
    /\ UNCHANGED <<rnReq, rnResults, rnInvoked, rnSummary, rnBeats>>
    /\ UNCHANGED <<rfVars, acVars, prVars, plVars, pdVars, wcVars, lgVars, ckVars, ubVars>>

AssignmentOfFirst(i) == [date |-> plDates[1], asked |-> plCommits[1]]

\* datesToProcess[i] and commitsPerBranch[i] (lines 591, 595)
Assignment(i) == [date |-> plDates[i], asked |-> plCommits[i]]

\* One turn of the loop in which processDate returns (lines 590-619)
RunProcess ==
    /\ rnPc = "loop"
    /\ rnI <= Len(plDates)
    /\ \E result \in ProcessDateReturns(Assignment(rnI).asked, rnReq) :
         rnResults' = Append(rnResults, Assignment(rnI) @@ result)
    /\ rnInvoked' = rnInvoked + 1
    /\ rnI' = rnI + 1
    /\ UNCHANGED <<rnPc, rnReq, rnInitCalls, rnTimers, rnEvents, rnSummary, rnBeats>>
    /\ UNCHANGED <<rfVars, acVars, prVars, plVars, pdVars, wcVars, lgVars, ckVars, ubVars>>

CatchDrops(results, record) == results

\* results.push of the catch (lines 622-626)
CatchRecord(results, record) == Append(results, record)

\* One turn of the loop in which the call of processDate throws
\* (lines 590-627)
RunProcessThrows ==
    /\ rnPc = "loop"
    /\ rnI <= Len(plDates)
    /\ rnResults' = CatchRecord(rnResults,
                        Assignment(rnI) @@ DateResult(FALSE, "thrown", 0, "none"))
    /\ rnInvoked' = rnInvoked + 1
    /\ rnI' = rnI + 1
    /\ UNCHANGED <<rnPc, rnReq, rnInitCalls, rnTimers, rnEvents, rnSummary, rnBeats>>
    /\ UNCHANGED <<rfVars, acVars, prVars, plVars, pdVars, wcVars, lgVars, ckVars, ubVars>>

SuccessCountAll(results) == Len(results)

\* results.filter(r => r.success).length
SuccessCount(results) ==
    Cardinality({i \in 1..Len(results) : results[i].success})

\* branchesPushed (line 663): the records whose results.push.success is
\* set, which processDate sets on the way to its last return only
BranchesPushed(results) ==
    Cardinality({i \in 1..Len(results) : results[i].stage = "done"})

\* commitsCreated (lines 655-660)
RECURSIVE CommitsCreated(_, _)
CommitsCreated(results, idx) ==
    IF idx > Len(results) THEN 0
    ELSE (IF results[idx].stage \in {"push", "done"} THEN plCommits[idx] ELSE 0)
         + CommitsCreated(results, idx + 1)

\* The end of the loop, the counts and the complete event (lines 640-692)
RunComplete ==
    /\ rnPc = "loop"
    /\ rnI > Len(plDates)
    /\ rnTimers' = ClearTimers(rnTimers)
    /\ rnSummary' = [processed |-> Len(rnResults),
                     successCount |-> SuccessCount(rnResults),
                     failureCount |-> Len(rnResults) - SuccessCount(rnResults),
                     commitsCreated |-> CommitsCreated(rnResults, 1),
                     branchesPushed |-> BranchesPushed(rnResults)]
    /\ rnEvents' = TerminalEvent(rnEvents, "complete")
    /\ rnPc' = "ended"
    /\ UNCHANGED <<rnReq, rnI, rnResults, rnInvoked, rnInitCalls, rnBeats>>
    /\ UNCHANGED <<rfVars, acVars, prVars, plVars, pdVars, wcVars, lgVars, ckVars, ubVars>>

\* Bound: the writes the two interval callbacks make during one request.
MaxTicks == 2

\* An interval that was set and not cleared fires (setInterval, lines 575
\* and 586)
TimerFires ==
    /\ rnTimers = "running"
    /\ rnBeats.heartbeat + rnBeats.keepAlive < MaxTicks

\* The heartbeat callback (lines 575-582): it reads results and writes one
\* progress event.
HeartbeatTick ==
    /\ TimerFires
    /\ rnBeats' = [rnBeats EXCEPT !.heartbeat = @ + 1]
    /\ UNCHANGED <<rnPc, rnReq, rnI, rnResults, rnInvoked, rnInitCalls, rnTimers,
                   rnEvents, rnSummary>>
    /\ UNCHANGED <<rfVars, acVars, prVars, plVars, pdVars, wcVars, lgVars, ckVars, ubVars>>

\* The keep-alive callback (lines 586-588): sendSSEKeepAlive writes one
\* comment.
KeepAliveTick ==
    /\ TimerFires
    /\ rnBeats' = [rnBeats EXCEPT !.keepAlive = @ + 1]
    /\ UNCHANGED <<rnPc, rnReq, rnI, rnResults, rnInvoked, rnInitCalls, rnTimers,
                   rnEvents, rnSummary>>
    /\ UNCHANGED <<rfVars, acVars, prVars, plVars, pdVars, wcVars, lgVars, ckVars, ubVars>>

\* The plans of n assignments the planner leaves for a request over the
\* days 1..n+1 with no holiday table.
Init ==
    /\ \E n \in 1..MaxAssign, total \in 1..MaxCommits :
         /\ n <= total
         /\ plIn = [startDate |-> 1, endDate |-> n + 1, numBranches |-> n,
                    totalCommits |-> total, country |-> "NONE",
                    missing |-> FALSE, datesOk |-> TRUE, west |-> FALSE]
         /\ plValid = GetValidDates(1, n + 1, "NONE")
         /\ plActual = n
         /\ plDates \in Shuffles(GetValidDates(1, n + 1, "NONE"))
         /\ plCommits \in {c \in [1..n -> 1..MaxCommits] : SumSeq(c) = total}
    /\ plPc = "planned"
    /\ plAdjusted = FALSE
    /\ plLeft = 0
    /\ plError = "none"
    /\ rnPc = "init"
    /\ rnReq \in [createPR : BOOLEAN, token : BOOLEAN]
    /\ rnI = 0
    /\ rnResults = <<>>
    /\ rnInvoked = 0
    /\ rnInitCalls = 0
    /\ rnTimers = "unset"
    /\ rnEvents = <<>>
    /\ rnSummary = <<>>
    /\ rnBeats = NoBeats
    /\ RfIdle
    /\ AcIdle
    /\ PrIdle
    /\ PdIdle
    /\ WcIdle
    /\ LgIdle
    /\ CkIdle
    /\ UbIdle

Next == RunInit \/ RunProcess \/ RunProcessThrows \/ RunComplete

Spec == Init /\ [][Next]_vars

\* Every call the handler awaits returns or fails in the end, so a step
\* that can be taken is taken.
SpecLive == Init /\ [][Next]_vars /\ WF_vars(Next)

\* The handler together with its two interval callbacks, which fire
\* between any two of its steps while they are set.
NextTimers == Next \/ HeartbeatTick \/ KeepAliveTick

SpecTimers == Init /\ [][NextTimers]_vars

\* The same for the calls createAndMergePR and mergeGitHubPR await.
SpecPRLive == InitPR /\ [][NextPR]_vars /\ WF_vars(NextPR)

\* createAndMergePR returns: the loop of mergeGitHubPR is left after at
\* most maxRetries turns.
MergeLoopEnds == <>(prPc = "returned")

\* C17: when the run completes, the i-th entry of results is the record of
\* the i-th selected date and was produced with the i-th commit count, also
\* when earlier assignments failed or threw.
C17_PlanOrder ==
    rnEvents = <<"complete">> =>
        /\ Len(rnResults) = Len(plDates)
        /\ \A i \in 1..Len(rnResults) :
             /\ rnResults[i].date = plDates[i]
             /\ rnResults[i].asked = plCommits[i]
             /\ rnResults[i].stage \in {"push", "done"} => rnResults[i].made = plCommits[i]

\* The first assignment threw; the second, with another commit count, went
\* through.
C17_Witness ==
    /\ rnEvents = <<"complete">>
    /\ Len(rnResults) >= 2
    /\ rnResults[1].stage = "thrown"
    /\ rnResults[2].success
    /\ plCommits[1] # plCommits[2]

\* C14: with every awaited call returning in the end, the run sends a
\* terminal event, and once the loop is entered that event is complete,
\* whatever failed in the assignments.
C14_EventuallyTerminal ==
    /\ <>(rnPc = "ended" /\ Len(rnEvents) = 1)
    /\ [](rnTimers = "running" => <>(rnEvents = <<"complete">>))

\* The run completed although every assignment failed.
C14_Witness ==
    /\ rnEvents = <<"complete">>
    /\ Len(rnResults) >= 2
    /\ \A i \in 1..Len(rnResults) : ~rnResults[i].success

(***************************************************************************)
(* The handler from the request to the entry of the loop: the checks, the  *)
(* plan and initGit (lines 436-588).                                       *)
(***************************************************************************)
InitStream ==
    /\ plPc = "validate"
    /\ plIn \in PlanInputs
    /\ plValid = <<>>
    /\ plActual = 0
    /\ plAdjusted = FALSE
    /\ plDates = <<>>
    /\ plCommits = <<>>
    /\ plLeft = 0
    /\ plError = "none"
    /\ rnPc = "init"
    /\ rnReq \in [createPR : BOOLEAN, token : BOOLEAN]
    /\ rnI = 0
    /\ rnResults = <<>>
    /\ rnInvoked = 0
    /\ rnInitCalls = 0
    /\ rnTimers = "unset"
    /\ rnEvents = <<>>
    /\ rnSummary = <<>>
    /\ rnBeats = NoBeats
    /\ RfIdle
    /\ AcIdle
    /\ PrIdle
    /\ PdIdle
    /\ WcIdle
    /\ LgIdle
    /\ CkIdle
    /\ UbIdle

NextStream == NextPlan \/ RunInit

SpecStream == InitStream /\ [][NextStream]_vars

\* The request is one the checks refuse, or its eligible pool is empty.
RefusedRequest ==
    \/ plIn.missing
    \/ IsNaN(plIn.numBranches) \/ IsNaN(plIn.totalCommits)
    \/ plIn.numBranches < 1 \/ plIn.totalCommits < 1
    \/ plIn.totalCommits < plIn.numBranches
    \/ ~plIn.datesOk
    \/ plIn.startDate > plIn.endDate
    \/ GetValidDates(ParseDate(plIn.startDate, plIn.west),
                     ParseDate(plIn.endDate, plIn.west), plIn.country) = <<>>

\* C12: a request with a missing field, a branch count below 1, a commit
\* budget below 1 or below the branch count, an unparsable date, a start
\* after the end, or an empty eligible pool ends with an error event, and
\* neither initGit nor processDate is ever called for it.
C12_RefusedBeforeRepository ==
    /\ RefusedRequest =>
         /\ rnInitCalls = 0 /\ rnInvoked = 0 /\ rnPc = "init"
         /\ plPc \in {"validate", "pool", "ended"}
         /\ plPc = "ended" => plError # "none"
    /\ plError # "none" => (RefusedRequest /\ plPc = "ended" /\ rnInitCalls = 0)

\* A request that passes every check but has an empty pool was refused.
C12_Witness ==
    /\ plPc = "ended"
    /\ plError = "noValidDates"
    /\ plIn.numBranches = 2
    /\ rnInitCalls = 0

\* What the steps of processDate return is among the returns the loop
\* is given.
ReturnsAgree ==
    pdPc = "returned" =>
        DateResult(pdRet.success, pdRet.stage, pdMade, pdResults.pr)
            \in ProcessDateReturns(pdIn.commitCount, pdIn)

\* C1: once the loop is entered the handler ends only with the complete
\* event, and when that event is sent processDate has been called for every
\* one of the N assignments and exactly N result records are held, whatever
\* failed or threw on the way.
C1_LoopRunsAll ==
    /\ (rnPc = "ended" /\ rnTimers # "unset") => rnEvents = <<"complete">>
    /\ rnEvents = <<"complete">> =>
         /\ rnInvoked = Len(plDates)
         /\ Len(rnResults) = Len(plDates)
         /\ rnSummary.processed = Len(plDates)
    /\ rnPc = "loop" => Len(rnResults) = rnI - 1 /\ rnInvoked = rnI - 1

\* The first assignment threw, a later one failed, and the run completed.
C1_Witness ==
    /\ rnEvents = <<"complete">>
    /\ Len(rnResults) >= 2
    /\ rnResults[1].stage = "thrown"
    /\ rnResults[2].stage = "branch"


(***************************************************************************)
(* Requests that name the same repository path.  Each handler builds its   *)
(* own git handle (initGit, line 550) and walks its assignments; nothing   *)
(* in the server keeps one request from running while another does.        *)
(***************************************************************************)
Requests == {1, 2}

\* The repository operations of one assignment, in the order processDate
\* awaits them.
CopyOps == <<"checkout", "branch", "commit", "push">>

WcStart == [turn |-> 1, op |-> 1, busy |-> FALSE]

\* What a request goes on to once an operation is behind it.
WcAdvance(pc) ==
    IF pc.op < Len(CopyOps)
    THEN [pc EXCEPT !.op = @ + 1, !.busy = FALSE]
    ELSE [turn |-> pc.turn + 1, op |-> 1, busy |-> FALSE]

\* A handler calls its next repository operation (await git.x(...))
WcBegin(r) ==
    /\ wcPc[r].turn <= MaxAssign
    /\ ~wcPc[r].busy
    /\ wcPc' = [wcPc EXCEPT ![r].busy = TRUE]
    /\ wcRunning' = wcRunning \union {<<r, wcPc[r].turn, CopyOps[wcPc[r].op]>>}
    /\ UNCHANGED <<rfVars, acVars, prVars, plVars, pdVars, rnVars, lgVars, ckVars, ubVars>>

\* The operation returns or fails, and the handler goes on
WcEnd(r) ==
    /\ wcPc[r].turn <= MaxAssign
    /\ wcPc[r].busy
    /\ <<r, wcPc[r].turn, CopyOps[wcPc[r].op]>> \in wcRunning
    /\ wcRunning' = wcRunning \ {<<r, wcPc[r].turn, CopyOps[wcPc[r].op]>>}
    /\ wcPc' = [wcPc EXCEPT ![r] = WcAdvance(@)]
    /\ UNCHANGED <<rfVars, acVars, prVars, plVars, pdVars, rnVars, lgVars, ckVars, ubVars>>

\* The 30 second timer of pushBranch wins the race (lines 372-379): the
\* handler goes on to the next assignment, the push is still running
WcPushTimeout(r) ==
    /\ wcPc[r].turn <= MaxAssign
    /\ wcPc[r].busy
    /\ CopyOps[wcPc[r].op] = "push"
    /\ wcPc' = [wcPc EXCEPT ![r] = WcAdvance(@)]
    /\ UNCHANGED wcRunning
    /\ UNCHANGED <<rfVars, acVars, prVars, plVars, pdVars, rnVars, lgVars, ckVars, ubVars>>

\* A push that lost the race ends
WcPushSettles(r) ==
    /\ \E t \in 1..MaxAssign :
         /\ <<r, t, "push">> \in wcRunning
         /\ wcPc[r].turn > t
         /\ wcRunning' = wcRunning \ {<<r, t, "push">>}
    /\ UNCHANGED wcPc
    /\ UNCHANGED <<rfVars, acVars, prVars, plVars, pdVars, rnVars, lgVars, ckVars, ubVars>>

InitCopy ==
    /\ wcPc = [r \in Requests |-> WcStart]
    /\ wcRunning = {}
    /\ RfIdle
    /\ AcIdle
    /\ PrIdle
    /\ PlIdle
    /\ PdIdle
    /\ RnIdle
    /\ LgIdle
    /\ CkIdle
    /\ UbIdle

NextCopy ==
    \E r \in Requests :
        \/ WcBegin(r) \/ WcEnd(r) \/ WcPushTimeout(r) \/ WcPushSettles(r)

SpecCopy == InitCopy /\ [][NextCopy]_vars

\* C15: at no point are two repository operations on the same working copy
\* in progress at once.
C15_OneOperationAtATime == Cardinality(wcRunning) <= 1

(***************************************************************************)
(* POST /api/process (part_001, lines 733-977), the endpoint the           *)
(* deployment guide gives as the command-line alternative.                 *)
(***************************************************************************)
\* The names the handler can read where it computes the plan: those of the
\* module (lines 5-12) and those it has bound itself up to line 808.
LegacyScope ==
    { "express", "path", "getValidDates", "formatDate", "initGit", "processDate",
      "getCommitHistory", "followAndStar", "app", "PORT",
      "requestId", "timeout", "startDate", "endDate", "percentage", "repoPath",
      "remote", "country", "coAuthors", "coAuthorRate", "createPR", "autoMerge",
      "prToken", "baseBranch", "platform", "mergeMethod",
      "percentageNum", "start", "end", "countryCode", "validDates" }

\* The bodies a client posts: the fields of the guide's example, with the
\* percentage as parseFloat reads it.
LegacyInputs ==
    [ startDate : Days, endDate : Days, country : {"US", "NONE"},
      percentage : {NaN, 0, 50, 100, 150},
      missing : BOOLEAN, datesOk : BOOLEAN, west : BOOLEAN ]

LegacyRespond(status) ==
    /\ lgStatus' = status
    /\ lgPc' = "responded"

\* The checks of the body (lines 769-804)
LegacyValidate ==
    /\ lgPc = "validate"
    /\ IF lgIn.missing THEN LegacyRespond(400)
       ELSE IF IsNaN(lgIn.percentage) \/ lgIn.percentage < 0 \/ lgIn.percentage > 100
            THEN LegacyRespond(400)
       ELSE IF ~lgIn.datesOk THEN LegacyRespond(400)
       ELSE IF ParseDate(lgIn.startDate, lgIn.west) > ParseDate(lgIn.endDate, lgIn.west)
            THEN LegacyRespond(400)
       ELSE lgPc' = "pool" /\ UNCHANGED lgStatus
    /\ UNCHANGED <<lgIn, lgValid>>
    /\ UNCHANGED <<rfVars, acVars, prVars, plVars, pdVars, rnVars, wcVars, ckVars, ubVars>>

\* getValidDates and the empty pool (lines 806-816)
LegacyPool ==
    /\ lgPc = "pool"
    /\ LET validDates == GetValidDates(ParseDate(lgIn.startDate, lgIn.west),
                                       ParseDate(lgIn.endDate, lgIn.west),
                                       lgIn.country)
       IN /\ lgValid' = validDates
          /\ IF Len(validDates) = 0
             THEN LegacyRespond(400)
             ELSE lgPc' = "plan" /\ UNCHANGED lgStatus
    /\ UNCHANGED lgIn
    /\ UNCHANGED <<rfVars, acVars, prVars, plVars, pdVars, rnVars, wcVars, ckVars, ubVars>>

\* let actualNumBranches = numBranchesNum (line 819): reading a name that
\* is bound nowhere throws a ReferenceError, which the catch of the handler
\* answers with status 500 (lines 965-975)
LegacyPlan ==
    /\ lgPc = "plan"
    /\ IF "numBranchesNum" \in LegacyScope
       THEN lgPc' = "loop" /\ UNCHANGED lgStatus
       ELSE LegacyRespond(500)
    /\ UNCHANGED <<lgIn, lgValid>>
    /\ UNCHANGED <<rfVars, acVars, prVars, plVars, pdVars, rnVars, wcVars, ckVars, ubVars>>

InitLegacy ==
    /\ lgPc = "validate"
    /\ lgIn \in LegacyInputs
    /\ lgValid = <<>>
    /\ lgStatus = 0
    /\ RfIdle
    /\ AcIdle
    /\ PrIdle
    /\ PlIdle
    /\ PdIdle
    /\ RnIdle
    /\ WcIdle
    /\ CkIdle
    /\ UbIdle

NextLegacy == LegacyValidate \/ LegacyPool \/ LegacyPlan

SpecLegacy == InitLegacy /\ [][NextLegacy]_vars

\* A body like the guide's: every field present, a percentage from 0 to
\* 100, two dates in order and at least one valid date between them.
LegacyValidBody ==
    /\ ~lgIn.missing
    /\ lgIn.datesOk
    /\ ~IsNaN(lgIn.percentage)
    /\ lgIn.percentage >= 0 /\ lgIn.percentage <= 100
    /\ lgIn.startDate <= lgIn.endDate
    /\ GetValidDates(ParseDate(lgIn.startDate, lgIn.west),
                     ParseDate(lgIn.endDate, lgIn.west), lgIn.country) # <<>>

\* C19: a POST to /api/process with valid startDate, endDate, country,
\* percentage, repoPath and remote and a non-empty pool of valid dates is
\* answered with the success summary, not with a server error.
C19_LegacyAnswersSummary ==
    (LegacyValidBody /\ lgPc = "responded") => lgStatus = 200

\* What results.pr holds when the pull-request step did not end in a merged
\* or merely created request: no remote URL, no token, an exception, a
\* failed create, a failed merge.
FailedPrResults == {"noUrl", "noToken", "threw", "failed", "notMerged"}

\* C33: processDate reports success exactly when the push step succeeded;
\* a failure of the pull-request step is recorded in results.pr and leaves
\* success true, so in the summary successCount equals branchesPushed and
\* successCount + failureCount is the number of assignments.
C33_SuccessIffPushed ==
    /\ \A i \in 1..Len(rnResults) :
          /\ rnResults[i].success <=> rnResults[i].stage = "done"
          /\ rnResults[i].pr \in FailedPrResults => rnResults[i].success
    /\ rnEvents = <<"complete">> =>
          /\ rnSummary.successCount = rnSummary.branchesPushed
          /\ rnSummary.successCount + rnSummary.failureCount = Len(plDates)

\* One assignment was pushed and its pull request failed, the other failed
\* at the push.
C33_Witness ==
    /\ rnEvents = <<"complete">>
    /\ Len(rnResults) = 2
    /\ rnResults[1].pr = "failed" /\ rnResults[1].success
    /\ rnResults[2].stage = "push"
    /\ rnSummary.successCount = 1
    /\ rnSummary.failureCount = 1

\* The commits createCommits made during the run, over all assignments.
MadeTotal(results) == SumSeq([i \in 1..Len(results) |-> results[i].made])

\* C34: the commitsCreated of the summary is the number of commits
\* createCommits made in the repository during the run, those of
\* assignments whose commit step failed part-way included.
C34_CommitsCreatedIsActual ==
    rnEvents = <<"complete">> => rnSummary.commitsCreated = MadeTotal(rnResults)

\* C38: a request to /api/process-stream writes exactly one terminal event
\* and nothing after it: the intervals are cleared when the event is
\* written, no step follows it, and a step of an interval callback changes
\* nothing but the stream.
C38_OneTerminalEventThenSilence ==
    /\ [](/\ Len(rnEvents) <= 1
          /\ rnPc = "ended" <=> Len(rnEvents) = 1
          /\ rnEvents # <<>> => rnTimers # "running")
    /\ [][rnEvents = <<>>]_vars
    /\ [][rnBeats' # rnBeats =>
            UNCHANGED <<rnPc, rnI, rnResults, rnInvoked, rnInitCalls, rnTimers,
                        rnEvents, rnSummary, pdVars, wcVars, acVars, rfVars>>]_vars

\* Both callbacks wrote while the loop ran, and the run completed.
C38_Witness ==
    /\ rnEvents = <<"complete">>
    /\ rnTimers = "cleared"
    /\ rnBeats.heartbeat = 1
    /\ rnBeats.keepAlive = 1

\* C35: resolveFileConflicts on commits.txt loses no content line: for
\* every input, also one whose markers are unbalanced, every line that is
\* not blank and not a marker line has a line of the same trimmed content
\* in the output.
C35_NoLineLost ==
    (rfPc = "done" /\ IsLogFile(rfFile)) =>
        \A i \in 1..Len(rfContent) :
            (Truthy(Trim(rfContent[i])) /\ ~IsMarker(rfContent[i])) =>
                \E j \in 1..Len(rfOut) : Trim(rfOut[j]) = Trim(rfContent[i])

\* C36: resolveFileConflicts on commits.txt is idempotent: applied to its
\* own output it returns that output unchanged.
C36_Idempotent ==
    (rfPc = "done" /\ IsLogFile(rfFile)) =>
        ResolveFileConflicts(rfFile, rfOut) = rfOut

\* A file with a closed region, a line spelled twice and a blank line: the
\* output differs from the input and is still a fixed point.
C36_Witness ==
    /\ rfPc = "done" /\ rfFile = LogFile
    /\ rfContent = << <<MarkOurs>>, <<"a", Space>>, <<MarkSep>>, <<"a">>, <<MarkEnd>> >>
    /\ rfOut = << <<"a", Space>>, Blank >>

(***************************************************************************)
(* /api/check: the preview of the plan (lines 86-196, 356-383), answered   *)
(* for the body that /api/process-stream is then called with.              *)
(***************************************************************************)
\* datesToProcess.slice(0, 10)
PreviewLen == 10

\* validDatesPreview: datesToProcess.slice(0, 10).map(formatDate).  A date
\* of the model is the local calendar day formatDate prints.
Preview(dates) == SubSeq(dates, 1, Min(PreviewLen, Len(dates)))

\* The arrays that fill(1), the random increments and the final shuffle
\* can leave in commitsPerBranch (lines 181-191, 531-544)
Distributions(n, total) ==
    { c \in [1..n -> 1..total] : SumSeq(c) = total }

\* The handler of /api/check up to its response: the same checks, pool and
\* clamp as the stream handler, then its own random selection and its own
\* random distribution.
CheckPlan ==
    /\ ckPc = "ready"
    /\ plPc = "validate"
    /\ IF RefusedRequest
       THEN /\ ckPc' = "refused"
            /\ UNCHANGED <<ckDates, ckCommits>>
       ELSE LET validDates == GetValidDates(ParseDate(plIn.startDate, plIn.west),
                                            ParseDate(plIn.endDate, plIn.west),
                                            plIn.country)
                actualNumBranches == Clamp(plIn.numBranches, Len(validDates))
            IN /\ \E shuffledDates \in Shuffles(validDates) :
                    ckDates' = Preview(SubSeq(shuffledDates, 1, actualNumBranches))
               /\ ckCommits' \in Distributions(actualNumBranches, plIn.totalCommits)
               /\ ckPc' = "answered"
    /\ UNCHANGED <<rfVars, acVars, prVars, plVars, pdVars, rnVars, wcVars, lgVars, ubVars>>

\* The stream handler builds its plan after the preview was answered.
StreamPlan ==
    /\ ckPc # "ready"
    /\ NextPlan

InitPreview ==
    /\ ckPc = "ready"
    /\ ckDates = <<>>
    /\ ckCommits = <<>>
    /\ plPc = "validate"
    /\ plIn \in PlanInputs
    /\ plValid = <<>>
    /\ plActual = 0
    /\ plAdjusted = FALSE
    /\ plDates = <<>>
    /\ plCommits = <<>>
    /\ plLeft = 0
    /\ plError = "none"
    /\ RfIdle
    /\ AcIdle
    /\ PrIdle
    /\ PdIdle
    /\ RnIdle
    /\ WcIdle
    /\ LgIdle
    /\ UbIdle

NextPreview == CheckPlan \/ StreamPlan

SpecPreview == InitPreview /\ [][NextPreview]_vars

\* C39: the plan /api/check shows is the plan a following
\* /api/process-stream run with the same body executes: the same selected
\* dates and the same commitsPerBranch.
C39_PreviewIsExecuted ==
    (ckPc = "answered" /\ plPc = "planned") =>
        /\ ckDates = Preview(plDates)
        /\ ckCommits = plCommits

(***************************************************************************)
(* updateBranchWithBase (gitOperations.js, lines 666-900).  Every git call *)
(* succeeds or throws as the environment pleases.                          *)
(***************************************************************************)
NoUbRet == [success |-> FALSE, kind |-> "none", manual |-> FALSE]

\* One more git call in the log.
Called(log, op, ok) == Append(log, [op |-> op, ok |-> ok])

\* A return of updateBranchWithBase.
UBReturn(success, kind, manual) ==
    /\ ubRet' = [success |-> success, kind |-> kind, manual |-> manual]
    /\ ubPc' = "returned"

\* The outer catch (lines 893-898)
UBError == UBReturn(FALSE, "error", FALSE)

AbortsFirstOnlyConflicts(kind) == kind # "mergeError"

\* The failures that call git.merge(['--abort']) before they return: the
\* resolution failed (797-803), no repository path (849-855), the
\* resolution threw (864-870), a merge error that is no conflict (880-886)
AbortsFirst(kind) ==
    kind \in {"resolveFailed", "noPath", "resolveThrew", "mergeError"}

\* requiresManualResolution of those returns (805-809, 857-861, 872-876,
\* 888-891)
ManualOf(kind) == kind \in {"resolveFailed", "noPath", "resolveThrew"}

\* What follows a failure of that kind.
UBFail(kind) ==
    IF AbortsFirst(kind)
    THEN ubPc' = "abort" /\ ubKind' = kind /\ UNCHANGED ubRet
    ELSE UBReturn(FALSE, kind, ManualOf(kind)) /\ ubKind' = kind

\* git.checkout(branchName) and git.fetch(remote) (lines 671-676)
UBCheckout ==
    /\ ubPc = "checkout"
    /\ \E coOk \in BOOLEAN :
         IF ~coOk
         THEN ubLog' = Called(ubLog, "checkout", FALSE) /\ UBError
         ELSE \E fetchOk \in BOOLEAN :
                /\ ubLog' = Called(Called(ubLog, "checkout", TRUE), "fetch", fetchOk)
                /\ IF fetchOk THEN ubPc' = "base" /\ UNCHANGED ubRet ELSE UBError
    /\ UNCHANGED <<ubIn, ubRaised, ubMerging, ubCommitted, ubKind>>
    /\ UNCHANGED <<rfVars, acVars, prVars, plVars, pdVars, rnVars, wcVars, lgVars, ckVars>>

\* The base branch is checked out and pulled inside a try of its own, then
\* the feature branch is checked out again (lines 679-689)
UBBase ==
    /\ ubPc = "base"
    /\ \E baseOk \in BOOLEAN, pullOk \in BOOLEAN, backOk \in BOOLEAN :
         LET tried == IF baseOk
                      THEN Called(Called(ubLog, "checkoutBase", TRUE), "pull", pullOk)
                      ELSE Called(ubLog, "checkoutBase", FALSE)
         IN /\ baseOk \/ pullOk
            /\ ubLog' = Called(tried, "checkout", backOk)
            /\ IF backOk THEN ubPc' = "merge" /\ UNCHANGED ubRet ELSE UBError
    /\ UNCHANGED <<ubIn, ubRaised, ubMerging, ubCommitted, ubKind>>
    /\ UNCHANGED <<rfVars, acVars, prVars, plVars, pdVars, rnVars, wcVars, lgVars, ckVars>>

\* What git.merge([remote/base, '--no-edit']) ends in: a merge commit, an
\* error whose message holds 'conflict' or 'CONFLICT', another error.
MergeEnds == {"clean", "conflict", "error"}

\* git.merge and the test of the error message (lines 693-695, 712-717,
\* 879); a conflicting merge leaves the working copy in the merge
UBMerge ==
    /\ ubPc = "merge"
    /\ \E e \in MergeEnds :
         /\ ubLog' = Called(ubLog, "merge", e = "clean")
         /\ ubRaised' = (e # "clean")
         /\ ubMerging' = (e = "conflict")
         /\ CASE e = "clean" -> ubPc' = "push" /\ UNCHANGED <<ubRet, ubKind>>
              [] e = "conflict" -> ubPc' = "path" /\ UNCHANGED <<ubRet, ubKind>>
              [] e = "error" -> UBFail("mergeError")
    /\ UNCHANGED <<ubIn, ubCommitted>>
    /\ UNCHANGED <<rfVars, acVars, prVars, plVars, pdVars, rnVars, wcVars, lgVars, ckVars>>

\* The repository path: the argument, else git.cwd() or rev-parse, else
\* process.cwd() when it holds a .git directory (lines 723-768, 811-822);
\* a throw inside the block is what the catch of lines 863-877 is for
UBPath ==
    /\ ubPc = "path"
    /\ \E fromGit \in BOOLEAN, cwdIsRepo \in BOOLEAN, threw \in BOOLEAN :
         IF ubIn.repoPath \/ fromGit
         THEN /\ ~cwdIsRepo /\ ~threw
              /\ ubPc' = "resolve" /\ UNCHANGED <<ubRet, ubKind>>
         ELSE IF threw
         THEN /\ ~cwdIsRepo
              /\ UBFail("resolveThrew")
         ELSE IF cwdIsRepo
         THEN ubPc' = "resolveCwd" /\ UNCHANGED <<ubRet, ubKind>>
         ELSE UBFail("noPath")
    /\ UNCHANGED <<ubIn, ubLog, ubRaised, ubMerging, ubCommitted>>
    /\ UNCHANGED <<rfVars, acVars, prVars, plVars, pdVars, rnVars, wcVars, lgVars, ckVars>>

\* resolveConflictsAutomatically (lines 770-772, 824-826): success is
\* returned only after its commit, which ends the merge (lines 526-535)
UBResolve ==
    /\ ubPc \in {"resolve", "resolveCwd"}
    /\ \E resolved \in BOOLEAN :
         IF resolved
         THEN /\ ubLog' = Called(ubLog, "commit", TRUE)
              /\ ubCommitted' = TRUE
              /\ ubMerging' = FALSE
              /\ ubPc' = "push"
              /\ UNCHANGED <<ubRet, ubKind>>
         ELSE /\ UBFail(IF ubPc = "resolve" THEN "resolveFailed" ELSE "noPath")
              /\ UNCHANGED <<ubLog, ubCommitted, ubMerging>>
    /\ UNCHANGED <<ubIn, ubRaised>>
    /\ UNCHANGED <<rfVars, acVars, prVars, plVars, pdVars, rnVars, wcVars, lgVars, ckVars>>

\* pushBranch(git, branchName, remote, true) after a merge or a committed
\* resolution (lines 697-711, 776-795, 830-844)
UBPush ==
    /\ ubPc = "push"
    /\ \E pushOk \in BOOLEAN :
         /\ ubLog' = Called(ubLog, "push", pushOk)
         /\ IF pushOk
            THEN UBReturn(TRUE, "updated", FALSE)
            ELSE UBReturn(FALSE, "pushFailed", FALSE)
    /\ UNCHANGED <<ubIn, ubRaised, ubMerging, ubCommitted, ubKind>>
    /\ UNCHANGED <<rfVars, acVars, prVars, plVars, pdVars, rnVars, wcVars, lgVars, ckVars>>

\* git.merge(['--abort']) in its own try, then the failure return (lines
\* 797-809, 849-861, 864-876, 880-891); an abort that throws is only logged
UBAbort ==
    /\ ubPc = "abort"
    /\ \E abortOk \in BOOLEAN :
         /\ ubMerging \/ ~abortOk
         /\ ubLog' = Called(ubLog, "abort", abortOk)
         /\ ubMerging' = (ubMerging /\ ~abortOk)
    /\ UBReturn(FALSE, ubKind, ManualOf(ubKind))
    /\ UNCHANGED <<ubIn, ubRaised, ubCommitted, ubKind>>
    /\ UNCHANGED <<rfVars, acVars, prVars, plVars, pdVars, rnVars, wcVars, lgVars, ckVars>>

InitUpdate ==
    /\ ubPc = "checkout"
    /\ ubIn \in [repoPath : BOOLEAN]
    /\ ubLog = <<>>
    /\ ubRaised = FALSE
    /\ ubMerging = FALSE
    /\ ubCommitted = FALSE
    /\ ubKind = "none"
    /\ ubRet = NoUbRet
    /\ RfIdle
    /\ AcIdle
    /\ PrIdle
    /\ PlIdle
    /\ PdIdle
    /\ RnIdle
    /\ WcIdle
    /\ LgIdle
    /\ CkIdle

NextUpdate ==
    \/ UBCheckout \/ UBBase \/ UBMerge \/ UBPath
    \/ UBResolve \/ UBPush \/ UBAbort

SpecUpdate == InitUpdate /\ [][NextUpdate]_vars

\* The call returned failure after its merge threw and no resolution was
\* committed.
FailedUnresolved ==
    /\ ubPc = "returned"
    /\ ~ubRet.success
    /\ ubRaised
    /\ ~ubCommitted

\* merge --abort was called.
AbortIssued == \E i \in 1..Len(ubLog) : ubLog[i].op = "abort"

\* C37, as the code has it: whenever updateBranchWithBase returns failure
\* after its merge of the base branch threw and the conflict was not
\* resolved and committed, it has called merge --abort before returning,
\* and the working copy is still in the merge only if that call threw.
C37_AbortIssuedBeforeReturn ==
    FailedUnresolved =>
        /\ AbortIssued
        /\ ubLog[Len(ubLog)].op = "abort"
        /\ ubMerging => ~ubLog[Len(ubLog)].ok

\* The merge conflicted, the resolution failed, the abort went through.
C37_Witness ==
    /\ FailedUnresolved
    /\ ubRet.kind = "resolveFailed"
    /\ ubRet.manual
    /\ ubLog[Len(ubLog)] = [op |-> "abort", ok |-> TRUE]
    /\ ~ubMerging

\* C37, as stated: after such a return merge --abort has been called and
\* the working copy is never left in an unfinished merge.
C37_NeverLeftMerging ==
    FailedUnresolved => (AbortIssued /\ ~ubMerging)

(***************************************************************************)
(* Specification of the pure resolver: any file name, any content.         *)
(***************************************************************************)
InitFile ==
    /\ rfPc = "ready"
    /\ rfFile \in FileNames
    /\ rfContent \in Contents
    /\ rfOut = <<>>
    /\ AcIdle
    /\ PrIdle
    /\ PlIdle
    /\ PdIdle
    /\ RnIdle
    /\ WcIdle
    /\ LgIdle
    /\ CkIdle
    /\ UbIdle

ResolveFile ==
    /\ rfPc = "ready"
    /\ rfOut' = ResolveFileConflicts(rfFile, rfContent)
    /\ rfPc' = "done"
    /\ UNCHANGED <<rfFile, rfContent>>
    /\ UNCHANGED <<acVars, prVars, plVars, pdVars, rnVars, wcVars, lgVars, ckVars, ubVars>>

NextFile == ResolveFile

SpecFile == InitFile /\ [][NextFile]_vars

====
